---------------------------- MODULE Spec2Model ----------------------------
(***************************************************************************)
(* The client-side content repository of the e-learning application       *)
(* (src/services/mockApi.ts): four IndexedDB object stores (users,        *)
(* courses, enrollments, reviews), the open-and-seed start-up sequence,   *)
(* and the api operations, together with the React handlers of            *)
(* src/unnamed/part_000 that call them.                                   *)
(*                                                                         *)
(* A stored record is a function from field names to values, so that a    *)
(* field can be absent (JavaScript's delete / an optional property).      *)
(* An object store is a function from primary keys to records.  Every api *)
(* operation runs in one IndexedDB transaction and is one action.         *)
(***************************************************************************)
EXTENDS Naturals, Integers, Sequences, FiniteSets, TLC

VARIABLES
    dbState,      \* dbPromise: "opening" | "seeding" | "ready"
    fetched,      \* seedInitialData: outcome of each asset fetch
    users,        \* object store 'users'       (keyPath id, unique index email)
    courses,      \* object store 'courses'     (keyPath id, index teacherId)
    enrollments,  \* object store 'enrollments' (keyPath id, unique index [studentId, courseId])
    reviews,      \* object store 'reviews'     (keyPath id, index courseId)
    now,          \* the value Date.now() returns
    result,       \* how the last api call settled
    adminUsers,   \* AdminUserManagement: the users state (from api.getUsers)
    currentCourse,\* TeacherCourseDetail: the currentCourse state
    session,      \* the signed-in user with the state of CoursePage / LessonViewPage
    inflight      \* api calls not awaited: their transactions, in creation order

vars == <<dbState, fetched, users, courses, enrollments, reviews, now, result,
          adminUsers, currentCourse, session, inflight>>

stores == <<users, courses, enrollments, reviews>>
ui == <<adminUsers, currentCourse, session>>
\* what an awaited api call leaves alone: the caller's state, no other call
\* being in flight
caller == <<ui, inflight>>

---------------------------------------------------------------------------
(* Bounds of the model.                                                    *)

\* How many milliseconds the clock may advance during a run.
MaxTick == 2

\* The clock starts far above every numeric suffix of a seed id
\* (Date.now() is milliseconds since 1970).
Epoch == 1000

---------------------------------------------------------------------------
(* JavaScript values.                                                      *)

null == "null"
NoCourse == [absent |-> "undefined"]

\* AuthProvider's user before anyone signs in
NoUser == [absent |-> "null"]

\* nobody signed in, the landing page shown, no page state
NoSession ==
    [user |-> NoUser, page |-> "landing", course |-> NoCourse, enrollment |-> {},
     lessonId |-> "undefined"]

\* File objects the forms can hand to the api.
Files == {"upload.bin"}

\* The Blob that fetchImageAsBlob yields for a url.
BlobOf(url) == "bytes:" \o url

\* URL.createObjectURL(blob)
createObjectURL(blob) == "blob:" \o blob

\* { ...a, ...b }
Spread(a, b) == b @@ a

\* delete r[f]
Delete(r, f) == CHOOSE g \in {[k \in (DOMAIN rv) \ {f} |-> rv[k]] : rv \in {r}} : TRUE

\* const { f, ...rest } = r
Rest(r, f) == Delete(r, f)

\* r[f], undefined when the property is absent
Get(r, f) == IF f \in DOMAIN r THEN r[f] ELSE "undefined"

Truthy(v) == v \notin {"undefined", null, ""}

Range(s) == {s[i] : i \in DOMAIN s}

---------------------------------------------------------------------------
(* enums of the types module                                               *)

Role == [ADMIN |-> "Admin", TEACHER |-> "Teacher", STUDENT |-> "Student"]
EnrollmentStatus == [PENDING |-> "Pending", APPROVED |-> "Approved", REJECTED |-> "Rejected"]
CourseStatus == [DRAFT |-> "Draft", PUBLISHED |-> "Published", ARCHIVED |-> "Archived"]

---------------------------------------------------------------------------
(* initialData                                                             *)

initialUsers == {
    [id |-> "admin1", email |-> "erick@gmail.com", password |-> "Erick3132!@#",
     name |-> "Erick", role |-> Role.ADMIN,
     profilePhotoUrl |-> "https://picsum.photos/seed/admin1/200"],
    [id |-> "teacher1", email |-> "teacher@test.com", password |-> "password",
     name |-> "Alice Teacher", role |-> Role.TEACHER,
     profilePhotoUrl |-> "https://picsum.photos/seed/teacher1/200"],
    [id |-> "student1", email |-> "student@test.com", password |-> "password",
     name |-> "Bob Student", role |-> Role.STUDENT,
     profilePhotoUrl |-> "https://picsum.photos/seed/student1/200"],
    [id |-> "student2", email |-> "student2@test.com", password |-> "password",
     name |-> "Charlie Student", role |-> Role.STUDENT,
     profilePhotoUrl |-> "https://picsum.photos/seed/student2/200"] }

initialCourses == {
    [id |-> "course1", title |-> "Introduction to React",
     description |-> "Learn the fundamentals of React, including components, state, props, and hooks.",
     teacherId |-> "teacher1", imageUrl |-> "https://picsum.photos/seed/course1/600/400",
     status |-> CourseStatus.PUBLISHED,
     lessons |-> <<
        [id |-> "l1-1", title |-> "Welcome to React!",
         content |-> "This is the first lesson, available for everyone to preview. We will cover the very basics.",
         duration |-> "5 minutes"],
        [id |-> "l1-2", title |-> "Understanding JSX",
         content |-> "JSX is a syntax extension for JavaScript. It allows you to write HTML-like code in your JavaScript files.",
         duration |-> "15 minutes"],
        [id |-> "l1-3", title |-> "Components and Props",
         content |-> "Components are the building blocks of React applications. Props are how you pass data between them.",
         duration |-> "20 minutes"] >>],
    [id |-> "course2", title |-> "Advanced Tailwind CSS",
     description |-> "Master Tailwind CSS and build beautiful, responsive UIs with utility-first classes.",
     teacherId |-> "teacher1", imageUrl |-> "https://picsum.photos/seed/course2/600/400",
     status |-> CourseStatus.PUBLISHED,
     lessons |-> <<
        [id |-> "l2-1", title |-> "Getting Started with Tailwind",
         content |-> "This is a free preview. Learn how to set up Tailwind CSS in your project.",
         duration |-> "10 minutes"],
        [id |-> "l2-2", title |-> "Responsive Design",
         content |-> "Learn how to use Tailwind's responsive design features to build mobile-first layouts.",
         duration |-> "25 minutes"] >>] }

\* a seed whose second enrollment names a student that is not seeded
enrollmentsOfUnknownStudent == {
    [id |-> "enroll1", studentId |-> "student1", courseId |-> "course1",
     status |-> EnrollmentStatus.APPROVED],
    [id |-> "enroll2", studentId |-> "student3", courseId |-> "course1",
     status |-> EnrollmentStatus.PENDING] }

initialEnrollments == {
    [id |-> "enroll1", studentId |-> "student1", courseId |-> "course1",
     status |-> EnrollmentStatus.APPROVED],
    [id |-> "enroll2", studentId |-> "student2", courseId |-> "course1",
     status |-> EnrollmentStatus.PENDING] }

initialReviews == {
    [id |-> "review1", studentId |-> "student1", courseId |-> "course1", rating |-> 5,
     comment |-> "Excellent course! The instructor was very clear."] }

\* The remote assets seedInitialData fetches: one per seed user and course.
SeedAssets ==
    {u.profilePhotoUrl : u \in initialUsers} \cup {c.imageUrl : c \in initialCourses}

---------------------------------------------------------------------------
(* IndexedDB object stores                                                 *)

EmptyStore == [k \in {} |-> [id |-> k]]

Records(store) == {store[k] : k \in DOMAIN store}

\* index.get(value) / index.getAll(value) on a single-field index
IndexGetAll(store, f, v) == {r \in Records(store) : f \in DOMAIN r /\ r[f] = v}

\* store.get(key) / index.get(value) yield a record or undefined
Found(rs) == rs # {}

\* An index created without { unique: true }: nothing ever clashes.
NonUniqueIndex(store, rec, fs) == {}

\* The records that stop `rec` from entering a store with a unique index on
\* the fields `fs`: another primary key holding the same index key.
UniqueClash(store, rec, fs) ==
    {r \in Records(store) : /\ r.id # rec.id
                            /\ fs \subseteq DOMAIN r
                            /\ fs \subseteq DOMAIN rec
                            /\ \A f \in fs : r[f] = rec[f]}

\* the store after store.put(rec) / store.add(rec) succeeded
Stored(store, rec) == (rec.id :> rec) @@ store

\* the store after store.delete(key)
Removed(store, key) ==
    CHOOSE g \in {[k \in (DOMAIN sv) \ {key} |-> sv[k]] : sv \in {store}} : TRUE

\* store.add(rec) raises ConstraintError on an existing primary key
AddFails(store, rec) == rec.id \in DOMAIN store

ConstraintError == "ConstraintError"

---------------------------------------------------------------------------
(* data processing helpers                                                 *)

IsBlob(v) == v \notin {"undefined", null, ""}

processBlobUrl(record, blobField, urlField) ==
    IF blobField \in DOMAIN record /\ IsBlob(record[blobField])
    THEN Spread(record, (urlField :> createObjectURL(record[blobField])))
    ELSE record

processUser(user) == processBlobUrl(user, "profilePhotoBlob", "profilePhotoUrl")
processCourse(course) == processBlobUrl(course, "imageBlob", "imageUrl")
processLesson(lesson) ==
    processBlobUrl(processBlobUrl(lesson, "videoBlob", "videoUrl"), "fileBlob", "fileUrl")

Settled(op, outcome) == [op |-> op, outcome |-> outcome]

---------------------------------------------------------------------------
(* dbPromise: open the database, seed it when the users store is empty     *)

NoResult == Settled("none", "none")
NoFetch == [a \in SeedAssets |-> "idle"]

Init ==
    /\ dbState = "opening"
    /\ fetched = NoFetch
    /\ users = EmptyStore
    /\ courses = EmptyStore
    /\ enrollments = EmptyStore
    /\ reviews = EmptyStore
    /\ now = Epoch
    /\ result = NoResult
    /\ adminUsers = {}
    /\ currentCourse = NoCourse
    /\ session = NoSession
    /\ inflight = <<>>

NeedsSeeding == Cardinality(DOMAIN users) = 0

\* request.onsuccess and countReq.onsuccess
OnSuccess ==
    /\ dbState = "opening"
    /\ IF NeedsSeeding
       THEN /\ dbState' = "seeding"
            /\ fetched' = [a \in SeedAssets |-> "pending"]
       ELSE /\ dbState' = "ready"
            /\ UNCHANGED fetched
    /\ UNCHANGED <<stores, now, result, caller>>

\* fetchImageAsBlob(url) settles: a Blob ("ok"), or null when the response is
\* not ok or the fetch throws.
FetchSettles(url, outcome) ==
    /\ dbState = "seeding"
    /\ fetched[url] = "pending"
    /\ fetched' = [fetched EXCEPT ![url] = outcome]
    /\ UNCHANGED <<dbState, stores, now, result, caller>>

fetchImageAsBlob(outcome, url) == IF outcome[url] = "ok" THEN BlobOf(url) ELSE null

\* Step 1 of seedInitialData, for the fetch outcomes `outcome`
withBlobs(rs, outcome, urlField, blobField) ==
    {Spread(r, (blobField :> fetchImageAsBlob(outcome, r[urlField]))) : r \in rs}

usersWithBlobs == withBlobs(initialUsers, fetched, "profilePhotoUrl", "profilePhotoBlob")
coursesWithBlobs == withBlobs(initialCourses, fetched, "imageUrl", "imageBlob")

\* store.put of every record of rs (their primary keys are pairwise distinct)
PutAll(store, rs) == [k \in {r.id : r \in rs} |-> CHOOSE r \in rs : r.id = k] @@ store

\* a put of the seed transaction raises ConstraintError: the transaction aborts
SeedAborts ==
    \/ \E u \in usersWithBlobs : UniqueClash(users, u, {"email"}) # {}
    \/ \E e \in initialEnrollments : UniqueClash(enrollments, e, {"studentId", "courseId"}) # {}

\* Step 2 of seedInitialData: the one readwrite transaction over the four stores
SeedCommit ==
    /\ dbState = "seeding"
    /\ \A a \in SeedAssets : fetched[a] \in {"ok", "failed"}
    /\ IF SeedAborts
       THEN /\ dbState' = "failed"
            /\ UNCHANGED stores
       ELSE /\ dbState' = "ready"
            /\ users' = PutAll(users, usersWithBlobs)
            /\ courses' = PutAll(courses, coursesWithBlobs)
            /\ enrollments' = PutAll(enrollments, initialEnrollments)
            /\ reviews' = PutAll(reviews, initialReviews)
    /\ fetched' = NoFetch
    /\ UNCHANGED <<now, result, caller>>

\* The page is loaded again: the module is evaluated anew, the stores persist.
Reload ==
    /\ dbState # "opening"
    /\ dbState' = "opening"
    /\ fetched' = NoFetch
    /\ result' = NoResult
    /\ adminUsers' = {}
    /\ currentCourse' = NoCourse
    /\ session' = NoSession
    /\ inflight' = <<>>
    /\ UNCHANGED <<stores, now>>

\* Date.now() advances
Tick ==
    /\ now < Epoch + MaxTick
    /\ now' = now + 1
    /\ UNCHANGED <<dbState, fetched, stores, result, caller>>

---------------------------------------------------------------------------
(* api: Auth and Users. An api call changes the stores and settles; the    *)
(* component state (ui) is left to the caller, who awaits the call.       *)

\* an api call that does not await dbPromise
Unawaited == TRUE

\* `const db = await dbPromise`: an api call goes on once the database is open
\* and, on a first run, seeded
Ready == dbState = "ready"

\* a login that accepts the record found by email whatever its password
LoginByEmail(email, password_param) == IndexGetAll(users, "email", email)

\* the record login finds by email and accepts
LoginMatch(email, password_param) ==
    {r \in IndexGetAll(users, "email", email) : Get(r, "password") = password_param}

login(email, password_param) ==
    /\ Ready
    /\ result' = Settled("login", IF Found(LoginMatch(email, password_param))
                                  THEN "ok" ELSE "Invalid credentials")
    /\ UNCHANGED <<dbState, fetched, stores, now>>

\* the value a successful login returns
loginValue(email, password_param) ==
    LET userRecord == CHOOSE r \in LoginMatch(email, password_param) : TRUE
    IN  Rest(processUser(userRecord), "password")

\* store.add(newUser) under the unique email index, shared by register and createUser
AddUser(op, newUser, duplicateMessage) ==
    IF Found(IndexGetAll(users, "email", newUser.email))
    THEN /\ result' = Settled(op, duplicateMessage)
         /\ UNCHANGED users
    ELSE IF AddFails(users, newUser)
    THEN /\ result' = Settled(op, ConstraintError)
         /\ UNCHANGED users
    ELSE /\ result' = Settled(op, "ok")
         /\ users' = Stored(users, newUser)

\* newUser of register
registeredUser(name, email, password_param) ==
    [id |-> "user" \o ToString(now), name |-> name, email |-> email,
     password |-> password_param, role |-> Role.STUDENT, profilePhotoUrl |-> ""]

register(name, email, password_param) ==
    /\ Ready
    /\ AddUser("register", registeredUser(name, email, password_param),
               "User with this email already exists")
    /\ UNCHANGED <<dbState, fetched, courses, enrollments, reviews, now>>

\* the value a successful register returns
registerValue(name, email, password_param) ==
    Rest(registeredUser(name, email, password_param), "password")

\* a list of users as stored, credentials included
getUsersRaw == {processUser(u) : u \in Records(users)}

\* api.getUsers
getUsers == {Rest(processUser(u), "password") : u \in Records(users)}

\* the record updateUser writes for userData over the stored record `existing`
updatedUserRecord(existing, userData) ==
    LET restUserData == Rest(userData, "newProfilePhoto")
        merged == Spread(existing, restUserData)
        withPhoto == IF Truthy(Get(userData, "newProfilePhoto"))
                     THEN Spread(merged, [profilePhotoBlob |-> userData.newProfilePhoto])
                     ELSE merged
    IN  IF Get(restUserData, "password") = "" THEN Delete(withPhoto, "password") ELSE withPhoto

updateUser(userData) ==
    /\ Ready
    /\ IF userData.id \notin DOMAIN users
       THEN /\ result' = Settled("updateUser", "User not found")
            /\ UNCHANGED users
       ELSE LET updatedRecord == updatedUserRecord(users[userData.id], userData)
            IN  IF UniqueClash(users, updatedRecord, {"email"}) # {}
                THEN /\ result' = Settled("updateUser", ConstraintError)
                     /\ UNCHANGED users
                ELSE /\ result' = Settled("updateUser", "ok")
                     /\ users' = Stored(users, updatedRecord)
    /\ UNCHANGED <<dbState, fetched, courses, enrollments, reviews, now>>

\* the value a successful updateUser returns
updateUserValue(userData) ==
    Rest(processUser(updatedUserRecord(users[userData.id], userData)), "password")

\* newUser of createUser
createdUser(userData) ==
    Spread(userData, [id |-> "user" \o ToString(now), profilePhotoUrl |-> ""])

createUser(userData) ==
    /\ Ready
    /\ AddUser("createUser", createdUser(userData), "Email already in use")
    /\ UNCHANGED <<dbState, fetched, courses, enrollments, reviews, now>>

\* the value a successful createUser returns
createUserValue(userData) == Rest(createdUser(userData), "password")

\* a delete that takes the user's enrollments along
deleteUserCascade(userId) ==
    /\ Ready
    /\ users' = Removed(users, userId)
    /\ enrollments' = [k \in {k \in DOMAIN enrollments : enrollments[k].studentId # userId}
                          |-> enrollments[k]]
    /\ result' = Settled("deleteUser", "ok")
    /\ UNCHANGED <<dbState, fetched, courses, reviews, now>>

deleteUser(userId) ==
    /\ Ready
    /\ users' = Removed(users, userId)
    /\ result' = Settled("deleteUser", "ok")
    /\ UNCHANGED <<dbState, fetched, courses, enrollments, reviews, now>>

---------------------------------------------------------------------------
(* api: Courses                                                            *)

\* teacherMap.get(course.teacherId) and the teacherInfo derived from it
teacherInfo(teacherId) ==
    LET teachers == {u \in Records(users) : u.role = Role.TEACHER /\ u.id = teacherId}
    IN  IF Found(teachers)
        THEN processUser(CHOOSE t \in teachers : TRUE)
        ELSE [name |-> "Unknown", profilePhotoUrl |-> ""]

\* { ...processCourse(course), teacherName, teacherProfilePhotoUrl }
withTeacherInfo(course) ==
    LET info == teacherInfo(course.teacherId)
    IN  Spread(processCourse(course),
               [teacherName |-> info.name, teacherProfilePhotoUrl |-> info.profilePhotoUrl])

\* A filter that only leaves out drafts.
notDraft(course) == course.status # CourseStatus.DRAFT

\* c => c.status === CourseStatus.PUBLISHED
isPublished(course) == course.status = CourseStatus.PUBLISHED

getCourses == {withTeacherInfo(c) : c \in {c \in Records(courses) : isPublished(c)}}

getAllCoursesForAdmin == {processCourse(c) : c \in Records(courses)}

getCoursesByTeacherId(teacherId) ==
    {processCourse(c) : c \in IndexGetAll(courses, "teacherId", teacherId)}

\* a read answered from the dataset as it was seeded
getCourseByIdAsSeeded(courseId) ==
    IF courseId \notin {c.id : c \in initialCourses}
    THEN NoCourse
    ELSE CHOOSE c \in initialCourses : c.id = courseId

getCourseById(courseId) ==
    IF courseId \notin DOMAIN courses
    THEN NoCourse
    ELSE LET processedCourse == processCourse(courses[courseId])
         IN  [processedCourse EXCEPT
                 !.lessons = [i \in DOMAIN processedCourse.lessons |->
                                 processLesson(processedCourse.lessons[i])]]

\* imageFile || null
OrNull(file) == IF Truthy(file) THEN file ELSE null

createCourse(courseData, teacherId) ==
    /\ Ready
    /\ LET restData == Rest(courseData, "imageFile")
           newCourse == Spread(restData,
                               [id |-> "course" \o ToString(now), teacherId |-> teacherId,
                                lessons |-> <<>>, imageUrl |-> "",
                                imageBlob |-> OrNull(Get(courseData, "imageFile"))])
       IN  IF AddFails(courses, newCourse)
           THEN /\ result' = Settled("createCourse", ConstraintError)
                /\ UNCHANGED courses
           ELSE /\ result' = Settled("createCourse", "ok")
                /\ courses' = Stored(courses, newCourse)
    /\ UNCHANGED <<dbState, fetched, users, enrollments, reviews, now>>

\* an update that writes the payload over a course emptied of its lessons
replacedCourseRecord(existing, courseData) ==
    Spread([existing EXCEPT !.lessons = <<>>], Rest(courseData, "imageFile"))

\* the record updateCourse writes for courseData over the stored record `existing`
updatedCourseRecord(existing, courseData) ==
    LET updatedRecord == Spread(existing, Rest(courseData, "imageFile"))
    IN  IF Truthy(Get(courseData, "imageFile"))
        THEN Spread(updatedRecord, [imageBlob |-> courseData.imageFile])
        ELSE updatedRecord

\* an update that puts the payload under its id whether a course is stored
\* there or not
updateCourseUpsert(courseData) ==
    /\ Ready
    /\ result' = Settled("updateCourse", "ok")
    /\ courses' = Stored(courses,
                         IF courseData.id \in DOMAIN courses
                         THEN updatedCourseRecord(courses[courseData.id], courseData)
                         ELSE Rest(courseData, "imageFile"))
    /\ UNCHANGED <<dbState, fetched, users, enrollments, reviews, now>>

updateCourse(courseData) ==
    /\ Ready
    /\ IF courseData.id \notin DOMAIN courses
       THEN /\ result' = Settled("updateCourse", "Course not found")
            /\ UNCHANGED courses
       ELSE /\ result' = Settled("updateCourse", "ok")
            /\ courses' = Stored(courses, updatedCourseRecord(courses[courseData.id], courseData))
    /\ UNCHANGED <<dbState, fetched, users, enrollments, reviews, now>>

\* A delete that removes nothing: the record stays in the store.
KeepsCourse(store, courseId) == store

\* the courses store after deleteCourse(courseId)
coursesWithout(store, courseId) == Removed(store, courseId)

deleteCourse(courseId) ==
    /\ Ready
    /\ courses' = coursesWithout(courses, courseId)
    /\ result' = Settled("deleteCourse", "ok")
    /\ UNCHANGED <<dbState, fetched, users, enrollments, reviews, now>>

---------------------------------------------------------------------------
(* api: Lessons                                                            *)

\* file.size / (1024 * 1024), for the files of the model (whole megabytes)
FileBytes(file) == 3 * 1024 * 1024
SizeMB(file) == FileBytes(file) \div (1024 * 1024)
FileName(file) == file

\* a new lesson that takes the URL input beside the file
newLessonWithFileAndUrl(lessonData, t) ==
    LET base == [id |-> "lesson" \o ToString(t), title |-> lessonData.title,
                 content |-> lessonData.content, duration |-> lessonData.duration]
        withFile == IF Truthy(lessonData.videoFile)
                    THEN Spread(base, [videoBlob |-> lessonData.videoFile,
                                       videoSize |-> SizeMB(lessonData.videoFile)])
                    ELSE base
    IN  IF Truthy(lessonData.videoUrlInput)
        THEN Spread(withFile, [videoUrl |-> lessonData.videoUrlInput])
        ELSE withFile

\* the lesson addLessonToCourse builds from lessonData
newLessonOf(lessonData, t) ==
    LET base == [id |-> "lesson" \o ToString(t), title |-> lessonData.title,
                 content |-> lessonData.content, duration |-> lessonData.duration]
        withVideo ==
            IF Truthy(lessonData.videoFile)
            THEN Spread(base, [videoBlob |-> lessonData.videoFile,
                               videoSize |-> SizeMB(lessonData.videoFile)])
            ELSE IF Truthy(lessonData.videoUrlInput)
            THEN Spread(base, [videoUrl |-> lessonData.videoUrlInput])
            ELSE base
    IN  IF Truthy(lessonData.attachmentFile)
        THEN Spread(withVideo, [fileBlob |-> lessonData.attachmentFile,
                                fileName |-> FileName(lessonData.attachmentFile),
                                fileSize |-> SizeMB(lessonData.attachmentFile)])
        ELSE withVideo

\* lessons.unshift(newLesson): the new lesson goes first
unshift(lessons, newLesson) == <<newLesson>> \o lessons

\* course.lessons.push(newLesson)
push(lessons, newLesson) == Append(lessons, newLesson)

\* store.put(course) with the course's lessons replaced
WithLessons(courseId, lessons) ==
    Stored(courses, [courses[courseId] EXCEPT !.lessons = lessons])

addLessonToCourse(courseId, lessonData) ==
    /\ Ready
    /\ IF courseId \notin DOMAIN courses
       THEN /\ result' = Settled("addLessonToCourse", "Course not found")
            /\ UNCHANGED courses
       ELSE /\ result' = Settled("addLessonToCourse", "ok")
            /\ courses' = WithLessons(courseId,
                                      push(courses[courseId].lessons, newLessonOf(lessonData, now)))
    /\ UNCHANGED <<dbState, fetched, users, enrollments, reviews, now>>

\* course.lessons.findIndex(l => l.id === lessonId): the first match, 0 for none
findIndex(lessons, lessonId) ==
    IF \E i \in DOMAIN lessons : lessons[i].id = lessonId
    THEN CHOOSE i \in DOMAIN lessons :
            /\ lessons[i].id = lessonId
            /\ \A j \in DOMAIN lessons : lessons[j].id = lessonId => i <= j
    ELSE 0

\* delete r[f] for every f of fs
DeleteAll(r, fs) == CHOOSE g \in {[k \in (DOMAIN rv) \ fs |-> rv[k]] : rv \in {r}} : TRUE

\* an update whose branches test the file before the removal flag
updatedLessonFileFirst(existingLesson, lessonData) ==
    LET base == Spread(existingLesson,
                       [title |-> lessonData.title, content |-> lessonData.content,
                        duration |-> lessonData.duration])
        withVideo ==
            IF Truthy(lessonData.videoFile)
            THEN DeleteAll(Spread(base, [videoBlob |-> lessonData.videoFile,
                                         videoSize |-> SizeMB(lessonData.videoFile)]),
                           {"videoUrl"})
            ELSE IF lessonData.videoRemoved
            THEN DeleteAll(base, {"videoUrl", "videoBlob", "videoSize"})
            ELSE IF Truthy(lessonData.videoUrlInput)
            THEN DeleteAll(Spread(base, [videoUrl |-> lessonData.videoUrlInput]),
                           {"videoBlob", "videoSize"})
            ELSE base
    IN  IF Truthy(lessonData.attachmentFile)
        THEN DeleteAll(Spread(withVideo, [fileBlob |-> lessonData.attachmentFile,
                                          fileName |-> FileName(lessonData.attachmentFile),
                                          fileSize |-> SizeMB(lessonData.attachmentFile)]),
                       {"fileUrl"})
        ELSE IF lessonData.attachmentRemoved
        THEN DeleteAll(withVideo, {"fileUrl", "fileBlob", "fileName", "fileSize"})
        ELSE withVideo

\* the lesson updateLessonInCourse writes over existingLesson
updatedLessonOf(existingLesson, lessonData) ==
    LET base == Spread(existingLesson,
                       [title |-> lessonData.title, content |-> lessonData.content,
                        duration |-> lessonData.duration])
        withVideo ==
            IF lessonData.videoRemoved
            THEN DeleteAll(base, {"videoUrl", "videoBlob", "videoSize"})
            ELSE IF Truthy(lessonData.videoFile)
            THEN DeleteAll(Spread(base, [videoBlob |-> lessonData.videoFile,
                                         videoSize |-> SizeMB(lessonData.videoFile)]),
                           {"videoUrl"})
            ELSE IF Truthy(lessonData.videoUrlInput)
            THEN DeleteAll(Spread(base, [videoUrl |-> lessonData.videoUrlInput]),
                           {"videoBlob", "videoSize"})
            ELSE base
    IN  IF lessonData.attachmentRemoved
        THEN DeleteAll(withVideo, {"fileUrl", "fileBlob", "fileName", "fileSize"})
        ELSE IF Truthy(lessonData.attachmentFile)
        THEN DeleteAll(Spread(withVideo, [fileBlob |-> lessonData.attachmentFile,
                                          fileName |-> FileName(lessonData.attachmentFile),
                                          fileSize |-> SizeMB(lessonData.attachmentFile)]),
                       {"fileUrl"})
        ELSE withVideo

updateLessonInCourse(courseId, lessonId, lessonData) ==
    /\ Ready
    /\ IF courseId \notin DOMAIN courses
       THEN /\ result' = Settled("updateLessonInCourse", "Course not found")
            /\ UNCHANGED courses
       ELSE LET lessons == courses[courseId].lessons
                lessonIndex == findIndex(lessons, lessonId)
            IN  IF lessonIndex = 0
                THEN /\ result' = Settled("updateLessonInCourse", "Lesson not found")
                     /\ UNCHANGED courses
                ELSE /\ result' = Settled("updateLessonInCourse", "ok")
                     /\ courses' = WithLessons(courseId,
                            [lessons EXCEPT ![lessonIndex] =
                                updatedLessonOf(lessons[lessonIndex], lessonData)])
    /\ UNCHANGED <<dbState, fetched, users, enrollments, reviews, now>>

\* course.lessons.filter(l => l.id !== lessonId)
withoutLesson(lessons, lessonId) ==
    LET keep(l) == l.id # lessonId
    IN  SelectSeq(lessons, keep)

deleteLessonFromCourse(courseId, lessonId) ==
    /\ Ready
    /\ IF courseId \notin DOMAIN courses
       THEN /\ result' = Settled("deleteLessonFromCourse", "Course not found")
            /\ UNCHANGED courses
       ELSE /\ result' = Settled("deleteLessonFromCourse", "ok")
            /\ courses' = WithLessons(courseId, withoutLesson(courses[courseId].lessons, lessonId))
    /\ UNCHANGED <<dbState, fetched, users, enrollments, reviews, now>>

\* new Map(course.lessons.map(l => [l.id, l])).get(id): the last lesson with
\* the id wins, undefined for an unknown id
lessonMapGet(lessons, id) ==
    IF \E i \in DOMAIN lessons : lessons[i].id = id
    THEN lessons[CHOOSE i \in DOMAIN lessons :
                    /\ lessons[i].id = id
                    /\ \A j \in DOMAIN lessons : lessons[j].id = id => j <= i]
    ELSE [undefined |-> TRUE]

\* lessonIds.map(id => lessonMap.get(id)).filter(Boolean)
reordered(lessons, lessonIds) ==
    LET known(l) == "undefined" \notin DOMAIN l
    IN  SelectSeq([i \in DOMAIN lessonIds |-> lessonMapGet(lessons, lessonIds[i])], known)

reorderLessons(courseId, lessonIds) ==
    /\ Ready
    /\ IF courseId \notin DOMAIN courses
       THEN /\ result' = Settled("reorderLessons", "Course not found")
            /\ UNCHANGED courses
       ELSE /\ result' = Settled("reorderLessons", "ok")
            /\ courses' = WithLessons(courseId, reordered(courses[courseId].lessons, lessonIds))
    /\ UNCHANGED <<dbState, fetched, users, enrollments, reviews, now>>

---------------------------------------------------------------------------
(* api: Enrollments                                                        *)

\* A lookup that never finds a record: the uniqueness check is skipped.
NoLookup(studentId, courseId) == {}

\* a lookup that passes over rejected enrollments
activeEnrollmentOf(studentId, courseId) ==
    {e \in Records(enrollments) :
        e.studentId = studentId /\ e.courseId = courseId
            /\ e.status # EnrollmentStatus.REJECTED}

\* index.get([studentId, courseId]) on the index studentId_courseId
enrollmentOf(studentId, courseId) ==
    {e \in Records(enrollments) : e.studentId = studentId /\ e.courseId = courseId}

createEnrollment(studentId, courseId) ==
    /\ Ready
    /\ LET newEnrollment == [id |-> "enroll" \o ToString(now), studentId |-> studentId,
                             courseId |-> courseId, status |-> EnrollmentStatus.PENDING]
           existing == enrollmentOf(studentId, courseId)
       IN  IF Found(existing)
           THEN /\ result' = Settled("createEnrollment", "Already enrolled or request pending")
                /\ UNCHANGED enrollments
           ELSE IF \/ AddFails(enrollments, newEnrollment)
                   \/ UniqueClash(enrollments, newEnrollment, {"studentId", "courseId"}) # {}
           THEN /\ result' = Settled("createEnrollment", ConstraintError)
                /\ UNCHANGED enrollments
           ELSE /\ result' = Settled("createEnrollment", "ok")
                /\ enrollments' = Stored(enrollments, newEnrollment)
    /\ UNCHANGED <<dbState, fetched, users, courses, reviews, now>>

\* a status update that only decides pending requests
updateEnrollmentStatusOfPending(enrollmentId, status) ==
    /\ Ready
    /\ IF enrollmentId \notin DOMAIN enrollments
       THEN /\ result' = Settled("updateEnrollmentStatus", "Enrollment not found")
            /\ UNCHANGED enrollments
       ELSE IF enrollments[enrollmentId].status # EnrollmentStatus.PENDING
       THEN /\ result' = Settled("updateEnrollmentStatus", "Enrollment already decided")
            /\ UNCHANGED enrollments
       ELSE /\ result' = Settled("updateEnrollmentStatus", "ok")
            /\ enrollments' = Stored(enrollments,
                                     [enrollments[enrollmentId] EXCEPT !.status = status])
    /\ UNCHANGED <<dbState, fetched, users, courses, reviews, now>>

updateEnrollmentStatus(enrollmentId, status) ==
    /\ Ready
    /\ IF enrollmentId \notin DOMAIN enrollments
       THEN /\ result' = Settled("updateEnrollmentStatus", "Enrollment not found")
            /\ UNCHANGED enrollments
       ELSE /\ result' = Settled("updateEnrollmentStatus", "ok")
            /\ enrollments' = Stored(enrollments,
                                     [enrollments[enrollmentId] EXCEPT !.status = status])
    /\ UNCHANGED <<dbState, fetched, users, courses, reviews, now>>

getEnrollmentForStudent(studentId, courseId) == enrollmentOf(studentId, courseId)

\* a course list that leaves out only the rejected enrollments
getRequestedCoursesByStudentId(studentId) ==
    LET studentEnrollments ==
            {e \in Records(enrollments) :
                e.studentId = studentId /\ e.status # EnrollmentStatus.REJECTED}
        enrolledCourseIds == {e.courseId : e \in studentEnrollments}
    IN  {withTeacherInfo(c) : c \in {c \in Records(courses) : c.id \in enrolledCourseIds}}

getEnrolledCoursesByStudentId(studentId) ==
    LET studentEnrollments ==
            {e \in Records(enrollments) :
                e.studentId = studentId /\ e.status = EnrollmentStatus.APPROVED}
        enrolledCourseIds == {e.courseId : e \in studentEnrollments}
    IN  {withTeacherInfo(c) : c \in {c \in Records(courses) : c.id \in enrolledCourseIds}}

\* v || fallback
OrElse(v, fallback) == IF Truthy(v) THEN v ELSE fallback

\* userMap.get(id) and courseMap.get(id) of getEnrollmentsForAdmin
userMapGet(id) == IF id \in DOMAIN users THEN Get(users[id], "name") ELSE "undefined"
courseMapGet(id) == IF id \in DOMAIN courses THEN Get(courses[id], "title") ELSE "undefined"

getEnrollmentsForAdmin ==
    {Spread(e, [studentName |-> OrElse(userMapGet(e.studentId), "Unknown Student"),
                courseTitle |-> OrElse(courseMapGet(e.courseId), "Unknown Course")])
        : e \in Records(enrollments)}

---------------------------------------------------------------------------
(* api calls that are not awaited: each call creates its readwrite         *)
(* transaction on 'courses', reads the course with store.get, and writes   *)
(* it back with store.put in the continuation of the read.                 *)

\* the local `course` / `existing` of a call before store.get has answered
Unread == [pending |-> "store.get"]

\* transactions started in any order, whatever transaction is still open
StartsUnordered(k) == TRUE

\* db.transaction('courses', 'readwrite'): readwrite transactions on one store
\* run one at a time, in the order they were created
Starts(k) == k = 1

\* the call creates its transaction and issues store.get
Issue(op, courseId, data) ==
    /\ Ready
    /\ inflight' = Append(inflight, [op |-> op, courseId |-> courseId, data |-> data,
                                     course |-> Unread])
    /\ UNCHANGED <<dbState, fetched, stores, now, result, ui>>

\* store.get(courseId) answers the k-th transaction: a copy of the record, or undefined
TxGet(k) ==
    /\ k \in DOMAIN inflight
    /\ Starts(k)
    /\ inflight[k].course = Unread
    /\ inflight' = [inflight EXCEPT ![k].course =
                        IF inflight[k].courseId \in DOMAIN courses
                        THEN courses[inflight[k].courseId]
                        ELSE [undefined |-> TRUE]]
    /\ UNCHANGED <<dbState, fetched, stores, now, result, ui>>

\* the record the call puts, made from the copy it read
recordToPut(call, t) ==
    IF call.op = "addLessonToCourse"
    THEN [call.course EXCEPT !.lessons = push(@, newLessonOf(call.data, t))]
    ELSE updatedCourseRecord(call.course, call.data)

\* the continuation of the read: the call throws, or puts its record and the
\* transaction completes
TxPut(k) ==
    /\ k \in DOMAIN inflight
    /\ Starts(k)
    /\ inflight[k].course # Unread
    /\ IF "undefined" \in DOMAIN inflight[k].course
       THEN /\ result' = Settled(inflight[k].op, "Course not found")
            /\ UNCHANGED courses
       ELSE /\ result' = Settled(inflight[k].op, "ok")
            /\ courses' = Stored(courses, recordToPut(inflight[k], now))
    /\ inflight' = [i \in 1..(Len(inflight) - 1) |->
                        IF i < k THEN inflight[i] ELSE inflight[i + 1]]
    /\ UNCHANGED <<dbState, fetched, users, enrollments, reviews, now, ui>>

---------------------------------------------------------------------------
(* api: Reviews                                                            *)

\* index('courseId').getAll(courseId)
getReviewsForCourse(courseId) == IndexGetAll(reviews, "courseId", courseId)

\* { ...reviewData, id: `review${Date.now()}` }
newReviewOf(reviewData, t) == Spread(reviewData, [id |-> "review" \o ToString(t)])

addReview(reviewData) ==
    /\ Ready
    /\ IF AddFails(reviews, newReviewOf(reviewData, now))
       THEN /\ result' = Settled("addReview", ConstraintError)
            /\ UNCHANGED reviews
       ELSE /\ result' = Settled("addReview", "ok")
            /\ reviews' = Stored(reviews, newReviewOf(reviewData, now))
    /\ UNCHANGED <<dbState, fetched, users, courses, enrollments, now>>

---------------------------------------------------------------------------
(* Components: the admin's user table with its form, and the teacher's     *)
(* course detail with the lesson form. A handler is its api call and the   *)
(* refresh it triggers on success.                                         *)

\* the `user` or `lesson` prop of a form opened to create
NoSelection == [absent |-> "null"]
isEditMode(selected) == selected # NoSelection

\* AdminUserManagement.fetchUsers
fetchUsers ==
    /\ Ready
    /\ adminUsers' = getUsers
    /\ UNCHANGED <<dbState, fetched, stores, now, result, currentCourse, session, inflight>>

\* UserFormModal: { ...user, name, email, role }, and the password if one was typed
updatedUserData(user, name, email, role, password) ==
    LET edited == Spread(user, [name |-> name, email |-> email, role |-> role])
    IN  IF Truthy(password) THEN Spread(edited, [password |-> password]) ELSE edited

\* UserFormModal.handleSubmit, then onSave = handleSaveUser, which fetches the users
UserFormModal_handleSubmit(user, name, email, role, password) ==
    /\ IF isEditMode(user)
       THEN updateUser(updatedUserData(user, name, email, role, password))
       ELSE /\ Truthy(password)
            /\ createUser([name |-> name, email |-> email, password |-> password,
                           role |-> role])
    /\ adminUsers' = IF result'.outcome = "ok" THEN getUsers' ELSE adminUsers
    /\ UNCHANGED <<currentCourse, session, inflight>>

\* TeacherDashboard.handleManageCourse: TeacherCourseDetail starts from the
\* course of the teacher's list
handleManageCourse(course) ==
    /\ Ready
    /\ currentCourse' = course
    /\ UNCHANGED <<dbState, fetched, stores, now, result, adminUsers, session, inflight>>

\* TeacherCourseDetail.refreshCourse: what setCurrentCourse receives
refreshCourse(courseId) == getCourseById(courseId)

\* LessonFormModal: the form state the opening effect sets
lessonFormOf(lesson) ==
    [title |-> IF isEditMode(lesson) THEN lesson.title ELSE "",
     content |-> IF isEditMode(lesson) THEN lesson.content ELSE "",
     duration |-> IF isEditMode(lesson) /\ Truthy(Get(lesson, "duration"))
                  THEN lesson.duration ELSE "",
     videoUrlInput |-> IF isEditMode(lesson) /\ Truthy(Get(lesson, "videoUrl"))
                       THEN lesson.videoUrl ELSE "",
     videoFile |-> null, attachmentFile |-> null,
     attachmentRemoved |-> FALSE, videoRemoved |-> FALSE]

handleVideoFileChange(form, file) ==
    Spread(form, [videoFile |-> file, videoRemoved |-> FALSE, videoUrlInput |-> ""])

handleAttachmentFileChange(form, file) ==
    Spread(form, [attachmentFile |-> file, attachmentRemoved |-> FALSE])

handleClearVideo(form) ==
    Spread(form, [videoFile |-> null, videoUrlInput |-> "", videoRemoved |-> TRUE])

\* LessonFormModal.handleSubmit, then onSave = handleSaveLesson, which
\* refreshes the course
LessonFormModal_handleSubmit(courseId, lesson, lessonData) ==
    /\ IF isEditMode(lesson)
       THEN updateLessonInCourse(courseId, lesson.id, lessonData)
       ELSE addLessonToCourse(courseId, lessonData)
    /\ currentCourse' = IF result'.outcome = "ok" THEN refreshCourse(courseId)'
                        ELSE currentCourse
    /\ UNCHANGED <<adminUsers, session, inflight>>

---------------------------------------------------------------------------
(* Components: signing in, CoursePage and LessonViewPage. `session` holds  *)
(* AuthProvider's user, the page shown, and the page's course, enrollment  *)
(* (the empty set for undefined) and lesson id.                            *)

SignedIn(user) == user # NoUser

\* AuthProvider.login, from the auth page
AuthProvider_login(email, pass) ==
    /\ login(email, pass)
    /\ session' = IF result'.outcome = "ok"
                  THEN [NoSession EXCEPT !.user = loginValue(email, pass)]
                  ELSE session
    /\ UNCHANGED <<adminUsers, currentCourse, inflight>>

\* AuthProvider.logout
logout ==
    /\ SignedIn(session.user)
    /\ session' = NoSession
    /\ UNCHANGED <<dbState, fetched, stores, now, result, adminUsers, currentCourse, inflight>>

\* the enrollment CoursePage and LessonViewPage fetch: for a Student only
pageEnrollment(user, courseId) ==
    IF SignedIn(user) /\ user.role = Role.STUDENT
    THEN getEnrollmentForStudent(user.id, courseId)
    ELSE {}

\* CoursePage mounts with pageParams.id = courseId: the effect loads the course
\* and checks the enrollment
CoursePage_mount(courseId) ==
    /\ Ready
    /\ session' = [user |-> session.user, page |-> "course",
                   course |-> getCourseById(courseId),
                   enrollment |-> pageEnrollment(session.user, courseId),
                   lessonId |-> "undefined"]
    /\ UNCHANGED <<dbState, fetched, stores, now, result, adminUsers, currentCourse, inflight>>

\* enrollment?.status === EnrollmentStatus.APPROVED
isEnrolledAndApproved(enrollment) ==
    \E e \in enrollment : e.status = EnrollmentStatus.APPROVED

\* CoursePage: isLocked of the lesson at position index (from 1)
isLocked(user, enrollment, index) ==
    /\ index > 1
    /\ \/ ~ SignedIn(user)
       \/ user.role = Role.STUDENT /\ ~ isEnrolledAndApproved(enrollment)

\* CoursePage: a click on a lesson that is not locked; handleLessonClick sends
\* a visitor to the auth page and a user to LessonViewPage, whose effect loads
\* the course and the enrollment
handleLessonClick(lessonId) ==
    /\ Ready
    /\ session.page = "course"
    /\ session.course # NoCourse
    /\ \E index \in DOMAIN session.course.lessons :
          /\ session.course.lessons[index].id = lessonId
          /\ ~ isLocked(session.user, session.enrollment, index)
    /\ session' = IF ~ SignedIn(session.user)
                  THEN [NoSession EXCEPT !.page = "auth"]
                  ELSE [user |-> session.user, page |-> "lessonView",
                        course |-> getCourseById(session.course.id),
                        enrollment |-> pageEnrollment(session.user, session.course.id),
                        lessonId |-> lessonId]
    /\ UNCHANGED <<dbState, fetched, stores, now, result, adminUsers, currentCourse, inflight>>

\* LessonViewPage: a click in the playlist or on Previous / Next; the page
\* keeps its course and enrollment
selectLesson(lessonId) ==
    /\ session.page = "lessonView"
    /\ session.course # NoCourse
    /\ lessonId \in {l.id : l \in Range(session.course.lessons)}
    /\ session' = [session EXCEPT !.lessonId = lessonId]
    /\ UNCHANGED <<dbState, fetched, stores, now, result, adminUsers, currentCourse, inflight>>

\* LessonViewPage: currentLessonIndex (from 1, 0 for none) and isContentLocked
currentLessonIndex(s) == findIndex(s.course.lessons, s.lessonId)

isContentLocked(s) ==
    ~ (currentLessonIndex(s) = 1) /\ ~ isEnrolledAndApproved(s.enrollment)

\* LessonViewPage: the parts of the current lesson the page renders
rendered(s) ==
    IF s.page # "lessonView" \/ s.course = NoCourse \/ currentLessonIndex(s) = 0
    THEN {}
    ELSE LET currentLesson == s.course.lessons[currentLessonIndex(s)]
         IN  (IF ~ isContentLocked(s) /\ Truthy(Get(currentLesson, "videoUrl"))
              THEN {"video"} ELSE {})
             \cup (IF Truthy(Get(currentLesson, "fileUrl")) /\ ~ isContentLocked(s)
                   THEN {"attachment"} ELSE {})
             \cup (IF Truthy(Get(currentLesson, "content")) THEN {"content"} ELSE {})

---------------------------------------------------------------------------
(* The state right after the first run, for given fetch outcomes.          *)

AllFetched(outcome) == [a \in SeedAssets |-> outcome]

Seeded(outcome) ==
    /\ dbState = "ready"
    /\ fetched = NoFetch
    /\ users = PutAll(EmptyStore, withBlobs(initialUsers, outcome, "profilePhotoUrl", "profilePhotoBlob"))
    /\ courses = PutAll(EmptyStore, withBlobs(initialCourses, outcome, "imageUrl", "imageBlob"))
    /\ enrollments = PutAll(EmptyStore, initialEnrollments)
    /\ reviews = PutAll(EmptyStore, initialReviews)

InitSeededWith(outcomes) ==
    /\ \E o \in outcomes : Seeded(AllFetched(o))
    /\ now = Epoch
    /\ result = NoResult
    /\ adminUsers = {}
    /\ currentCourse = NoCourse
    /\ session = NoSession
    /\ inflight = <<>>

---------------------------------------------------------------------------
(* The Identity Directory under calls of one client.                       *)

NewEmail == "new@test.com"
CallEmails == {"student@test.com", NewEmail}
CallPasswords == {"password", "changed"}
CallUserIds == {"student1", "student2", "user" \o ToString(Epoch)}

\* userData of updateUser: the id, and optionally an email and a password
UpdateUserPayloads ==
    UNION { { [id |-> i] } \cup
            { [id |-> i, email |-> e] : e \in CallEmails } \cup
            { [id |-> i, password |-> p] : p \in {"", "changed"} } \cup
            { [id |-> i, email |-> e, password |-> p] : e \in CallEmails, p \in {"", "changed"} }
          : i \in CallUserIds }

NextUsers ==
    \/ Tick
    \/ \E e \in CallEmails, p \in CallPasswords : login(e, p) /\ UNCHANGED caller
    \/ \E e \in CallEmails : register("New User", e, "password") /\ UNCHANGED caller
    \/ \E e \in CallEmails :
          /\ createUser([name |-> "New Teacher", email |-> e, password |-> "password",
                         role |-> Role.TEACHER])
          /\ UNCHANGED caller
    \/ \E d \in UpdateUserPayloads : updateUser(d) /\ UNCHANGED caller
    \/ \E i \in CallUserIds : deleteUser(i) /\ UNCHANGED caller

InitUsers == InitSeededWith({"ok"})

SpecUsers == InitUsers /\ [][NextUsers]_vars

---------------------------------------------------------------------------
(* Claims about the Identity Directory                                     *)

NoSharedEmail ==
    \A a, b \in Records(users) : a.email = b.email => a = b

DuplicateEmailErrors == {"User with this email already exists", "Email already in use"}

\* a register or createUser call whose email is already stored
DuplicateEmailCall(e) ==
    /\ Found(IndexGetAll(users, "email", e))
    /\ \/ register("New User", e, "password")
       \/ createUser([name |-> "New Teacher", email |-> e, password |-> "password",
                      role |-> Role.TEACHER])

DuplicateEmailRejected ==
    \A e \in CallEmails :
        DuplicateEmailCall(e) =>
            /\ result'.outcome \in DuplicateEmailErrors
            /\ users' = users
            /\ Cardinality(IndexGetAll(users', "email", e)) = 1

\* C2: no two User records ever share an email; a register or createUser
\* with an email that is already stored fails with the duplicate-email
\* error, adds no record and leaves exactly one User with that email; no
\* updateUser makes two records share an email.
C2_UniqueEmail ==
    NoSharedEmail /\ [][NoSharedEmail' /\ DuplicateEmailRejected]_vars

\* A register with a stored email was rejected, and an updateUser that
\* would have taken another user's email was refused by the index.
C2_Witness ==
    /\ result.op \in {"register", "createUser"}
    /\ result.outcome \in DuplicateEmailErrors
    /\ Cardinality(IndexGetAll(users, "email", "student@test.com")) = 1
    /\ "student2" \in DOMAIN users
    /\ users["student2"].email = NewEmail

\* an updateUser call with an empty-string password on a stored user
EmptyPasswordUpdate(d) ==
    /\ Get(d, "password") = ""
    /\ d.id \in DOMAIN users
    /\ updateUser(d)
    /\ result'.outcome = "ok"

\* C5: updateUser with an empty-string password leaves the stored password
\* as it was, so that a login with the previous password still succeeds.
C5_EmptyPasswordKeepsCredential ==
    [][\A d \in UpdateUserPayloads :
          EmptyPasswordUpdate(d) =>
              /\ Get(users'[d.id], "password") = Get(users[d.id], "password")
              /\ \A e \in CallEmails, p \in CallPasswords :
                    (Found(LoginMatch(e, p)) /\ users[d.id].email = e /\ ~ ("email" \in DOMAIN d))
                        => Found(LoginMatch(e, p))']_vars

---------------------------------------------------------------------------
(* The Enrollment Ledger under calls of one client.                        *)

CallStudents == {"student1", "student2"}
CallCourses == {"course1", "course2"}
Statuses == {EnrollmentStatus.PENDING, EnrollmentStatus.APPROVED, EnrollmentStatus.REJECTED}
ClockValues == Epoch .. (Epoch + MaxTick)
CallEnrollmentIds == {"enroll1", "enroll2"} \cup {"enroll" \o ToString(t) : t \in ClockValues}

NextEnroll ==
    \/ Tick
    \/ \E st \in CallStudents, c \in CallCourses :
          createEnrollment(st, c) /\ UNCHANGED caller
    \/ \E i \in CallEnrollmentIds, status \in Statuses :
          updateEnrollmentStatus(i, status) /\ UNCHANGED caller

InitEnroll == InitSeededWith({"ok"})

SpecEnroll == InitEnroll /\ [][NextEnroll]_vars

AlreadyEnrolled == "Already enrolled or request pending"

AtMostOnePerPair ==
    \A a, b \in Records(enrollments) :
        (a.studentId = b.studentId /\ a.courseId = b.courseId) => a = b

\* the stored enrollments of a pair
PairRecords(st, c) == {e \in Records(enrollments) : e.studentId = st /\ e.courseId = c}

SecondCreateRejected ==
    \A st \in CallStudents, c \in CallCourses :
        createEnrollment(st, c) =>
            /\ PairRecords(st, c) # {} =>
                  /\ result'.outcome = AlreadyEnrolled
                  /\ enrollments' = enrollments
            /\ (PairRecords(st, c) # {} \/ result'.outcome = "ok") =>
                  Cardinality(PairRecords(st, c)') = 1

\* C1: under every interleaving of createEnrollment and updateEnrollmentStatus
\* at most one Enrollment is stored per (studentId, courseId); a
\* createEnrollment for a pair that already has a record fails with the
\* already-enrolled error and leaves exactly one record of the pair.
C1_OneEnrollmentPerPair ==
    AtMostOnePerPair /\ [][AtMostOnePerPair' /\ SecondCreateRejected]_vars

\* A pair was enrolled by a first call, and a second call for it was rejected.
C1_Witness ==
    /\ result = Settled("createEnrollment", AlreadyEnrolled)
    /\ \E e \in PairRecords("student2", "course2") : e.id \notin {"enroll1", "enroll2"}
    /\ Cardinality(DOMAIN enrollments) = 3

\* C15: createEnrollment(studentId, courseId) fails with AlreadyEnrolled
\* whenever a record for the pair exists, whatever its status: after
\* updateEnrollmentStatus set it to Rejected, a new createEnrollment for the
\* same pair still fails and the stored record keeps status Rejected.
C15_RejectedCannotResubmit ==
    [][result'.op = "createEnrollment" =>
          \A st \in CallStudents, c \in CallCourses :
              \A e \in PairRecords(st, c) :
                  createEnrollment(st, c) =>
                      /\ result'.outcome = AlreadyEnrolled
                      /\ e.id \in DOMAIN enrollments'
                      /\ enrollments'[e.id] = e
                      /\ e.status = EnrollmentStatus.REJECTED =>
                            PairRecords(st, c)' = {e}]_vars

\* The seed request of student2 for course1 was rejected, and a new request
\* of the pair failed: the record is still the rejected one.
C15_Witness ==
    /\ result = Settled("createEnrollment", AlreadyEnrolled)
    /\ enrollments["enroll2"].status = EnrollmentStatus.REJECTED
    /\ PairRecords("student2", "course1") = {enrollments["enroll2"]}

---------------------------------------------------------------------------
(* The lesson list of one course under calls of one client.                *)

\* How many lessons the client lets a course grow to.
MaxLessons == 3

LessonCourse == "course2"
GhostLesson == "no-such-lesson"

LessonPayload(title, content) ==
    [title |-> title, content |-> content, duration |-> "", videoUrlInput |-> "",
     videoFile |-> null, attachmentFile |-> null,
     attachmentRemoved |-> FALSE, videoRemoved |-> FALSE]

PlainPayloads == {LessonPayload("L1", "x"), LessonPayload("L2", "y")}

LessonIds(courseId) == {l.id : l \in Range(courses[courseId].lessons)}

\* every sequence without repetition over the set S
Arrangements(S) ==
    UNION { {f \in [1..n -> S] : \A i, j \in 1..n : f[i] = f[j] => i = j}
            : n \in 0..Cardinality(S) }

\* the arguments a client may pass to reorderLessons
ReorderInputs(courseId) == Arrangements(LessonIds(courseId) \cup {GhostLesson})

NextLessons ==
    \/ Tick
    \/ \E d \in PlainPayloads :
          /\ Len(courses[LessonCourse].lessons) < MaxLessons
          /\ addLessonToCourse(LessonCourse, d)
          /\ UNCHANGED caller
    \/ \E l \in LessonIds(LessonCourse) \cup {GhostLesson} :
          deleteLessonFromCourse(LessonCourse, l) /\ UNCHANGED caller
    \/ \E ids \in ReorderInputs(LessonCourse) :
          reorderLessons(LessonCourse, ids) /\ UNCHANGED caller

InitLessons == InitSeededWith({"ok"})

SpecLessons == InitLessons /\ [][NextLessons]_vars

\* reorderLessons is called with a list that is no permutation of the course's
\* lesson ids: it holds an id that is not in the course, or omits one that is.
InvalidOrder(courseId, ids) == Range(ids) # LessonIds(courseId)

\* C3: reorderLessons with an id that does not belong to the course, or with
\* a list that omits an existing lesson id, is rejected and leaves the
\* course's stored lesson sequence unchanged.
C3_InvalidReorderRejected ==
    [][\A ids \in ReorderInputs(LessonCourse) :
          (reorderLessons(LessonCourse, ids) /\ InvalidOrder(LessonCourse, ids)) =>
              /\ result'.outcome # "ok"
              /\ courses'[LessonCourse].lessons = courses[LessonCourse].lessons]_vars

\* the lessons getCourseById returns for a stored lesson list
ReadBack(lessons) == [i \in DOMAIN lessons |-> processLesson(lessons[i])]

\* C4: for every permutation P of the course's current lesson-id set,
\* reorderLessons(courseId, P) followed by getCourseById(courseId) returns
\* the same lessons (same ids, same data) in exactly the order P.
C4_ReorderRoundTrip ==
    [][\A P \in ReorderInputs(LessonCourse) :
          (reorderLessons(LessonCourse, P) /\ ~ InvalidOrder(LessonCourse, P)) =>
              LET before == ReadBack(courses[LessonCourse].lessons)
                  after == getCourseById(LessonCourse)'.lessons
              IN  /\ [i \in DOMAIN after |-> after[i].id] = P
                  /\ Len(after) = Len(before)
                  /\ Range(after) = Range(before)]_vars

\* C10: addLessonToCourse appends: a course with n lessons has n+1
\* afterwards, the new lesson is last and carries the payload, and the first
\* n lessons are the previous ones in their previous order; L1 then L2 added
\* to an empty course read back as [L1, L2].
C10_AddLessonAppends ==
    [][\A d \in PlainPayloads :
          addLessonToCourse(LessonCourse, d) =>
              LET old == courses[LessonCourse].lessons
                  new == courses'[LessonCourse].lessons
                  n == Len(old)
                  read == getCourseById(LessonCourse)'.lessons
              IN  /\ Len(new) = n + 1
                  /\ SubSeq(new, 1, n) = old
                  /\ new[n + 1].title = d.title /\ new[n + 1].content = d.content
                  /\ new[n + 1].id = "lesson" \o ToString(now)
                  /\ read = ReadBack(old) \o <<processLesson(new[n + 1])>>
                  /\ (n = 1 /\ old[1].title = "L1" /\ d.title = "L2") =>
                        [i \in DOMAIN read |-> read[i].title] = <<"L1", "L2">>]_vars

\* L1 and then L2 were added to the emptied course and read back in that order.
C10_Witness ==
    /\ result = Settled("addLessonToCourse", "ok")
    /\ LET read == getCourseById(LessonCourse).lessons
       IN  [i \in DOMAIN read |-> read[i].title] = <<"L1", "L2">>

\* the records of a store are kept under their own ids
KeyedById(store) == \A k \in DOMAIN store : store[k].id = k

\* C24: identifiers are unique: in every reachable state the records of each
\* collection have pairwise distinct ids and the lessons inside each course
\* have pairwise distinct ids, also when two creates happen within the same
\* clock millisecond.
C24_IdentifiersUnique ==
    /\ KeyedById(users) /\ KeyedById(courses) /\ KeyedById(enrollments) /\ KeyedById(reviews)
    /\ \A c \in Records(courses) :
          \A i, j \in DOMAIN c.lessons : c.lessons[i].id = c.lessons[j].id => i = j

\* no id occurs twice in the lesson list
DistinctIds(lessons) ==
    \A i, j \in DOMAIN lessons : lessons[i].id = lessons[j].id => i = j

\* `after` is `before` with the one element at position k taken out
TakenOut(before, after, k) ==
    after = [i \in 1..(Len(before) - 1) |-> IF i < k THEN before[i] ELSE before[i + 1]]

\* C26: deleteLessonFromCourse(courseId, lessonId) removes exactly the lesson
\* with that id: the remaining lessons are the previous ones without it, in
\* their previous order and with unchanged data, and no id occurs twice in
\* the result; with a lessonId that is not in the course the list is unchanged.
C26_DeleteLessonRemovesOne ==
    [][\A l \in LessonIds(LessonCourse) \cup {GhostLesson} :
          deleteLessonFromCourse(LessonCourse, l) =>
              LET before == courses[LessonCourse].lessons
                  after == courses'[LessonCourse].lessons
              IN  /\ l \in LessonIds(LessonCourse) =>
                        \E k \in DOMAIN before : before[k].id = l /\ TakenOut(before, after, k)
                  /\ l \notin LessonIds(LessonCourse) => after = before
                  /\ DistinctIds(after)]_vars

---------------------------------------------------------------------------
(* The Course Repository under calls of one client.                        *)

CallCourseIds == {"course1", "course2"} \cup {"course" \o ToString(t) : t \in ClockValues}

CreatePayloads ==
    {[title |-> "New Course", description |-> "d", status |-> st, imageFile |-> null]
        : st \in {CourseStatus.DRAFT, CourseStatus.PUBLISHED}}

AllCourseStatuses == {CourseStatus.DRAFT, CourseStatus.PUBLISHED, CourseStatus.ARCHIVED}

UpdateCoursePayloads ==
    {[id |-> i, status |-> st, imageFile |-> null] : i \in CallCourseIds, st \in AllCourseStatuses}

NextCourses ==
    \/ Tick
    \/ \E d \in CreatePayloads : createCourse(d, "teacher1") /\ UNCHANGED caller
    \/ \E d \in UpdateCoursePayloads : updateCourse(d) /\ UNCHANGED caller
    \/ \E i \in CallCourseIds : deleteCourse(i) /\ UNCHANGED caller

InitCourses == InitSeededWith({"ok"})

SpecCourses == InitCourses /\ [][NextCourses]_vars

\* every course a repository query returns
QueriedCourses ==
    UNION { getCourses, getAllCoursesForAdmin,
            UNION {getCoursesByTeacherId(u.id) : u \in initialUsers},
            UNION {getEnrolledCoursesByStudentId(u.id) : u \in initialUsers} }

\* C7: after deleteCourse(id), getCourseById(id) returns absent and no
\* repository query returns the course or any lesson of it: what the queries
\* return are the lesson lists of the courses that are still stored.
C7_DeleteCourseRemovesLessons ==
    [][\A id \in CallCourseIds :
          (result'.op = "deleteCourse" /\ id \in DOMAIN courses /\ deleteCourse(id)) =>
              /\ getCourseById(id)' = NoCourse
              /\ \A c \in QueriedCourses' :
                    /\ c.id # id
                    /\ c.id \in DOMAIN courses'
                    /\ c.lessons = courses'[c.id].lessons]_vars

\* The seed course with three lessons and an approved enrollment was deleted.
C7_Witness ==
    /\ result = Settled("deleteCourse", "ok")
    /\ "course1" \notin DOMAIN courses
    /\ "enroll1" \in DOMAIN enrollments
    /\ getEnrolledCoursesByStudentId("student1") = {}
    /\ getCourseById("course1") = NoCourse

PublishedIds == {i \in DOMAIN courses : courses[i].status = CourseStatus.PUBLISHED}

\* getCourses returns exactly the stored courses whose status is Published
ListsPublished ==
    LET listed == getCourses
    IN  /\ {c.id : c \in listed} = PublishedIds
        /\ \A c \in listed :
              /\ c.status = CourseStatus.PUBLISHED
              /\ c.title = courses[c.id].title
              /\ c.lessons = courses[c.id].lessons

ListedIds == {c.id : c \in getCourses}

\* C9: after any sequence of createCourse, updateCourse and deleteCourse,
\* getCourses returns exactly the stored courses whose current status is
\* Published; a course created as Draft is excluded, and it is included once
\* updateCourse has set its status to Published.
C9_GetCoursesListsPublished ==
    /\ ListsPublished
    /\ [][/\ ListsPublished'
          /\ \A d \in CreatePayloads :
                (result' = Settled("createCourse", "ok") /\ d.status = CourseStatus.DRAFT
                    /\ createCourse(d, "teacher1")) =>
                    ("course" \o ToString(now)) \notin ListedIds'
          /\ \A d \in UpdateCoursePayloads :
                (result' = Settled("updateCourse", "ok") /\ d.status = CourseStatus.PUBLISHED
                    /\ updateCourse(d)) =>
                    d.id \in ListedIds']_vars

\* A course created as Draft was published by updateCourse and is listed,
\* beside an archived seed course that is not.
C9_Witness ==
    /\ result = Settled("updateCourse", "ok")
    /\ \E c \in getCourses : c.id \notin {"course1", "course2"}
    /\ "course1" \in DOMAIN courses
    /\ courses["course1"].status = CourseStatus.ARCHIVED

---------------------------------------------------------------------------
(* The admin's user table and the teacher's course detail, used by one     *)
(* admin and one teacher.                                                  *)

\* the users the admin opens in the form
FormUserIds == {"student1"} \cup {"user" \o ToString(t) : t \in ClockValues}
FormPasswords == {"", "changed"}

\* what the teacher does in the lesson form before saving
EditedForms(form) ==
    {form, handleClearVideo(form)} \cup {handleVideoFileChange(form, f) : f \in Files}

NewLessonForms ==
    LET blank == Spread(lessonFormOf(NoSelection), [title |-> "L1", content |-> "x"])
    IN  {blank} \cup {handleVideoFileChange(blank, f) : f \in Files}
                \cup {handleAttachmentFileChange(blank, f) : f \in Files}

HasCourse == "id" \in DOMAIN currentCourse

NextUI ==
    \/ Tick
    \/ fetchUsers
    \/ \E user \in {u \in adminUsers : u.id \in FormUserIds}, password \in FormPasswords :
          UserFormModal_handleSubmit(user, user.name, user.email, user.role, password)
    \/ \E password \in {"", "password"} :
          UserFormModal_handleSubmit(NoSelection, "New User", NewEmail, Role.STUDENT, password)
    \/ \E course \in {c \in getCoursesByTeacherId("teacher1") : c.id = LessonCourse} :
          handleManageCourse(course)
    \/ /\ HasCourse
       /\ \E courseId \in {currentCourse.id}, lesson \in Range(currentCourse.lessons) :
             \E form \in EditedForms(lessonFormOf(lesson)) :
                LessonFormModal_handleSubmit(courseId, lesson, form)
    \/ /\ HasCourse
       /\ Len(courses[LessonCourse].lessons) < MaxLessons
       /\ \E courseId \in {currentCourse.id}, form \in NewLessonForms :
             LessonFormModal_handleSubmit(courseId, NoSelection, form)

InitUI == InitSeededWith({"ok"})

SpecUI == InitUI /\ [][NextUI]_vars

\* every blob a store can hold, and the object URLs made from them
StoredBlobs == {BlobOf(a) : a \in SeedAssets} \cup Files
ObjectURLs == {createObjectURL(b) : b \in StoredBlobs}

MediaOf(r, fs) == {Get(r, f) : f \in fs}

\* the values of the media URL fields of all stored users, courses and lessons
StoredMedia ==
    UNION ( {MediaOf(u, {"profilePhotoUrl"}) : u \in Records(users)} \cup
            {MediaOf(c, {"imageUrl"}) : c \in Records(courses)} \cup
            {MediaOf(l, {"videoUrl", "fileUrl"}) :
                l \in UNION {Range(c.lessons) : c \in Records(courses)}} )

\* C6: in every reachable state no stored media field of a User, Course or
\* Lesson record is a resolved display URL (an object URL made from a stored
\* blob): a stored media field is absent, an external URL, or a blob.
C6_NoDisplayUrlStored == StoredMedia \cap ObjectURLs = {}

---------------------------------------------------------------------------
(* Opening the database, seeding, and loading the page again, with users   *)
(* deleted and an enrollment decided in between.                           *)

SeedUserIds == {u.id : u \in initialUsers}

NextSeed ==
    \/ OnSuccess
    \/ \E url \in SeedAssets, outcome \in {"ok", "failed"} : FetchSettles(url, outcome)
    \/ SeedCommit
    \/ Reload
    \/ \E i \in SeedUserIds : deleteUser(i) /\ UNCHANGED caller
    \/ updateEnrollmentStatus("enroll2", EnrollmentStatus.APPROVED) /\ UNCHANGED caller
    \/ login("teacher@test.com", "password") /\ UNCHANGED caller

SpecSeed == Init /\ [][NextSeed]_vars

\* the database holds no record: it was never seeded
FirstRun ==
    /\ users = EmptyStore
    /\ courses = EmptyStore
    /\ enrollments = EmptyStore
    /\ reviews = EmptyStore

\* C8: the seed runs on first run only: once the database has been seeded,
\* the seed transaction of a later open writes nothing, so it neither writes
\* seed records again nor overwrites records that exist at that open.
C8_SeedOnFirstRunOnly == [][(~ FirstRun /\ SeedCommit) => UNCHANGED stores]_vars

\* the seed assets whose fetch failed
FailedAssets == {a \in SeedAssets : fetched[a] = "failed"}

\* the values of the media fields of a seed record
SeedMediaOf(r) ==
    {Get(r, f) : f \in {"profilePhotoUrl", "profilePhotoBlob", "imageUrl", "imageBlob"}}

\* the stored User and Course records that name asset a, by its url or by
\* the blob fetched from it
ReferringTo(a, us, cs) ==
    {r \in Records(us) \cup Records(cs) : SeedMediaOf(r) \cap {a, BlobOf(a)} # {}}

\* every seed record is in its store
SeedStored(us, cs, es, rs) ==
    /\ {u.id : u \in initialUsers} \subseteq DOMAIN us
    /\ {c.id : c \in initialCourses} \subseteq DOMAIN cs
    /\ initialEnrollments \subseteq Records(es)
    /\ initialReviews \subseteq Records(rs)

\* C20: for every subset of seed assets whose fetch fails, the seed of the
\* first run completes and commits every seed User, Course, Enrollment and
\* Review, and no stored record refers to an asset whose fetch failed.
C20_SeedDropsFailedMedia ==
    [][(FirstRun /\ SeedCommit) =>
        /\ dbState' = "ready"
        /\ SeedStored(users', courses', enrollments', reviews')
        /\ \A a \in FailedAssets : ReferringTo(a, users', courses') = {}]_vars

\* every asset fetch of the seed has settled
AllResolved == \A a \in SeedAssets : fetched[a] \in {"ok", "failed"}

\* C21: on a first run every seed asset fetch has resolved before the seed
\* transaction writes, all seed records are committed in that one step, and no
\* api call settles before it: until the commit the stores are empty, and the
\* step that changes them leaves the whole seed dataset stored.
C21_SeedBeforeAnyOperation ==
    [][FirstRun =>
        /\ result' = NoResult
        /\ (stores' # stores =>
              /\ AllResolved
              /\ SeedStored(users', courses', enrollments', reviews')
              /\ dbState' = "ready")]_vars

\* the first run has committed with a failed fetch and no api call made yet
C21_Witness ==
    /\ dbState = "ready"
    /\ result = NoResult
    /\ SeedStored(users, courses, enrollments, reviews)
    /\ \E u \in Records(users) : u.profilePhotoBlob = null

WithRole(us, role) == {u \in Records(us) : u.role = role}

WithStatus(es, status) == {e \in Records(es) : e.status = status}

\* the dataset has the shape of the seed
SeedShape(us, cs, es, rs) ==
    /\ Cardinality(DOMAIN us) = 4
    /\ Cardinality(WithRole(us, Role.ADMIN)) = 1
    /\ Cardinality(WithRole(us, Role.TEACHER)) = 1
    /\ Cardinality(WithRole(us, Role.STUDENT)) = 2
    /\ Cardinality(DOMAIN cs) = 2
    /\ \A c \in Records(cs) :
          /\ c.status = CourseStatus.PUBLISHED
          /\ c.teacherId \in {u.id : u \in WithRole(us, Role.TEACHER)}
    /\ {Len(c.lessons) : c \in Records(cs)} = {3, 2}
    /\ Cardinality(DOMAIN es) = 2
    /\ Cardinality(WithStatus(es, EnrollmentStatus.APPROVED)) = 1
    /\ Cardinality(WithStatus(es, EnrollmentStatus.PENDING)) = 1
    /\ Cardinality(DOMAIN rs) = 1
    /\ \A x \in Records(es) \cup Records(rs) :
          /\ x.studentId \in {u.id : u \in WithRole(us, Role.STUDENT)}
          /\ x.courseId \in DOMAIN cs

\* C27: immediately after the first run the stored dataset is exactly the
\* seed shape: 1 Admin, 1 Teacher and 2 Student users, 2 Published courses of
\* that Teacher with 3 and 2 lessons, 2 Enrollments (one Approved, one
\* Pending) and 1 Review, each enrollment and review naming a seeded student
\* and a seeded course.
C27_SeedShape ==
    [][(FirstRun /\ SeedCommit) => SeedShape(users', courses', enrollments', reviews')]_vars

\* the first run has just committed, with every asset fetched
C27_Witness ==
    /\ dbState = "ready"
    /\ result = NoResult
    /\ SeedShape(users, courses, enrollments, reviews)
    /\ \A u \in Records(users) : u.profilePhotoBlob = BlobOf(u.profilePhotoUrl)

---------------------------------------------------------------------------
(* The media slots of the lessons of one course under addLessonToCourse    *)
(* and updateLessonInCourse with every combination of file, URL input and  *)
(* removal flags; the calls come within one millisecond.                  *)

ExternalVideo == "https://videos.example/intro.mp4"

\* lessonData of a call: every combination of the video inputs with no
\* attachment input, every combination of the attachment inputs with no video
\* input, and the calls that fill or clear both slots at once
MediaPayload(u, vf, vr, af, ar) ==
    [title |-> "T", content |-> "c", duration |-> "", videoUrlInput |-> u,
     videoFile |-> vf, attachmentFile |-> af, attachmentRemoved |-> ar,
     videoRemoved |-> vr]

MediaPayloads ==
    {MediaPayload(u, vf, vr, null, FALSE) :
        u \in {"", ExternalVideo}, vf \in {null} \cup Files, vr \in BOOLEAN} \cup
    {MediaPayload("", null, FALSE, af, ar) : af \in {null} \cup Files, ar \in BOOLEAN} \cup
    {MediaPayload(ExternalVideo, f, vr, f, vr) : f \in Files, vr \in BOOLEAN}

NextMedia ==
    \/ \E d \in MediaPayloads :
          /\ Len(courses[LessonCourse].lessons) < MaxLessons
          /\ addLessonToCourse(LessonCourse, d)
          /\ UNCHANGED caller
    \/ \E l \in LessonIds(LessonCourse) \cup {GhostLesson}, d \in MediaPayloads :
          updateLessonInCourse(LessonCourse, l, d) /\ UNCHANGED caller

InitMedia == InitSeededWith({"ok"})

SpecMedia == InitMedia /\ [][NextMedia]_vars

StoredLessons == UNION {Range(c.lessons) : c \in Records(courses)}

\* no stored lesson holds a video blob and a video URL at once
VideoExclusive == \A l \in StoredLessons : ~ ({"videoBlob", "videoUrl"} \subseteq DOMAIN l)

\* a call with a video file stores the file as the new lesson's video
AddStoresFile ==
    \A d \in MediaPayloads :
        (result'.op = "addLessonToCourse" /\ Truthy(d.videoFile)
            /\ addLessonToCourse(LessonCourse, d)) =>
            LET lessons == courses'[LessonCourse].lessons
                new == lessons[Len(lessons)]
            IN  /\ Get(new, "videoBlob") = d.videoFile
                /\ "videoUrl" \notin DOMAIN new

\* after an update with a video file the stored lesson holds the file and no
\* URL, and the lesson read back has the URL made from the blob
UpdateStoresFile ==
    result' = Settled("updateLessonInCourse", "ok") =>
        \A l \in LessonIds(LessonCourse),
           d \in {x \in MediaPayloads : Truthy(x.videoFile) /\ ~ x.videoRemoved} :
            updateLessonInCourse(LessonCourse, l, d) =>
                LET i == findIndex(courses[LessonCourse].lessons, l)
                    stored == courses'[LessonCourse].lessons[i]
                    read == getCourseById(LessonCourse)'.lessons[i]
                IN  /\ Get(stored, "videoBlob") = d.videoFile
                    /\ "videoUrl" \notin DOMAIN stored
                    /\ Get(read, "videoUrl") = createObjectURL(d.videoFile)
                    /\ Get(read, "videoUrl") # ExternalVideo

VideoFields == {"videoUrl", "videoBlob", "videoSize"}
AttachmentFields == {"fileUrl", "fileBlob", "fileName", "fileSize"}

\* the fields fs of a lesson, as far as it has them
Slot(lesson, fs) == [k \in fs \cap DOMAIN lesson |-> lesson[k]]

\* the video slot after a call with lessonData d is decided by priority
VideoDecided(d, before, after) ==
    IF d.videoRemoved THEN DOMAIN Slot(after, VideoFields) = {}
    ELSE IF Truthy(d.videoFile)
    THEN /\ DOMAIN Slot(after, VideoFields) = {"videoBlob", "videoSize"}
         /\ after.videoBlob = d.videoFile
    ELSE IF Truthy(d.videoUrlInput)
    THEN Slot(after, VideoFields) = ("videoUrl" :> d.videoUrlInput)
    ELSE Slot(after, VideoFields) = Slot(before, VideoFields)

\* the attachment slot likewise (lessonData has no URL input for it)
AttachmentDecided(d, before, after) ==
    IF d.attachmentRemoved THEN DOMAIN Slot(after, AttachmentFields) = {}
    ELSE IF Truthy(d.attachmentFile)
    THEN /\ DOMAIN Slot(after, AttachmentFields) = {"fileBlob", "fileName", "fileSize"}
         /\ after.fileBlob = d.attachmentFile
    ELSE Slot(after, AttachmentFields) = Slot(before, AttachmentFields)

\* C12: updateLessonInCourse decides each media slot by strict priority: the
\* removed flag clears the slot and its metadata even when a file or URL is
\* supplied too; else a file replaces the slot; else an external URL
\* replaces it and clears the blob and size; else the slot and its metadata
\* are exactly as before the call.
C12_MediaSlotPriority ==
    [][result' = Settled("updateLessonInCourse", "ok") =>
          \A l \in LessonIds(LessonCourse), d \in MediaPayloads :
              updateLessonInCourse(LessonCourse, l, d) =>
                  LET i == findIndex(courses[LessonCourse].lessons, l)
                      before == courses[LessonCourse].lessons[i]
                      after == courses'[LessonCourse].lessons[i]
                  IN  /\ VideoDecided(d, before, after)
                      /\ AttachmentDecided(d, before, after)]_vars

\* An update has cleared the media of a seed lesson (it carries the call's
\* title and no media), beside a lesson that holds a video URL and an
\* attachment.
C12_Witness ==
    /\ result = Settled("updateLessonInCourse", "ok")
    /\ \E l \in StoredLessons :
          /\ l.id = "l2-1" /\ l.title = "T"
          /\ DOMAIN l \cap (VideoFields \cup AttachmentFields) = {}
    /\ \E l \in StoredLessons :
          /\ l.id = "l2-2" /\ Get(l, "videoUrl") = ExternalVideo
          /\ Get(l, "fileBlob") \in Files

---------------------------------------------------------------------------
(* Logging in while accounts are registered, change their password and     *)
(* are deleted.                                                            *)

AuthEmails == {"student@test.com", "Student@test.com", NewEmail}
AuthPasswords == {"password", "Password", "changed", ""}
AuthUserIds == {"student1"} \cup {"user" \o ToString(t) : t \in ClockValues}

NextAuth ==
    \/ Tick
    \/ \E e \in AuthEmails, p \in AuthPasswords : login(e, p) /\ UNCHANGED caller
    \/ register("New User", NewEmail, "password") /\ UNCHANGED caller
    \/ \E i \in AuthUserIds, p \in {"", "changed"} :
          updateUser([id |-> i, password |-> p]) /\ UNCHANGED caller
    \/ \E i \in AuthUserIds : deleteUser(i) /\ UNCHANGED caller

InitAuth == InitSeededWith({"ok"})

SpecAuth == InitAuth /\ [][NextAuth]_vars

\* a stored user has exactly this email and exactly this password
CredentialStored(e, p) ==
    \E u \in Records(users) : u.email = e /\ "password" \in DOMAIN u /\ u.password = p

\* C13: login(email, password) succeeds if and only if a stored User record
\* has exactly that email and exactly that password (case-sensitive);
\* otherwise it fails with the InvalidCredentials error; in particular login
\* fails for a user after deleteUser removed that user.
C13_LoginIffCredentialStored ==
    [][result'.op = "login" =>
          \A e \in AuthEmails, p \in AuthPasswords :
              login(e, p) =>
                  /\ result'.outcome = "ok" <=> CredentialStored(e, p)
                  /\ result'.outcome # "ok" => result'.outcome = "Invalid credentials"
                  /\ (\A u \in Records(users) : u.email # e) =>
                        result'.outcome = "Invalid credentials"]_vars

\* The seed student was deleted and a login then failed, while the account
\* registered in the meantime is stored.
C13_Witness ==
    /\ result = Settled("login", "Invalid credentials")
    /\ "student1" \notin DOMAIN users
    /\ CredentialStored(NewEmail, "changed")

\* the userData the admin may pass to updateUser and createUser
AuthUpdates ==
    {[id |-> i, password |-> p] : i \in DOMAIN users, p \in {"", "changed"}}
AuthCreates ==
    {[name |-> "New Teacher", email |-> e, password |-> "password", role |-> Role.TEACHER]
        : e \in AuthEmails}

\* every value a repository operation can return in the current state
ReturnedValues ==
    {loginValue(c[1], c[2]) :
        c \in {c \in AuthEmails \X AuthPasswords : Found(LoginMatch(c[1], c[2]))}} \cup
    {registerValue("New User", e, "password") : e \in AuthEmails} \cup
    getUsers \cup
    {updateUserValue(d) : d \in AuthUpdates} \cup
    {createUserValue(d) : d \in AuthCreates} \cup
    getCourses \cup
    getEnrollmentsForAdmin \cup
    UNION {getEnrolledCoursesByStudentId(i) : i \in SeedUserIds \cup AuthUserIds}

\* C14: no value returned by a repository operation (login, register,
\* getUsers, updateUser, createUser, getCourses, getEnrollmentsForAdmin,
\* getEnrolledCoursesByStudentId) contains a password field, in every stored
\* state.
C14_NoPasswordReturned == \A v \in ReturnedValues : "password" \notin DOMAIN v

\* A registered account has changed its password: stored users hold
\* credentials, the seed ones and a new one.
C14_Witness ==
    /\ result = Settled("updateUser", "ok")
    /\ \E u \in Records(users) : u.id \notin SeedUserIds /\ Get(u, "password") = "changed"
    /\ \E v \in getUsers : v.id \notin SeedUserIds
    /\ \A u \in Records(users) : "password" \in DOMAIN u

---------------------------------------------------------------------------
(* Records that refer to each other: users and courses are renamed and     *)
(* deleted while enrollments are requested and decided.                    *)

RefUserIds == {"student1", "teacher1"}

RefUserUpdates ==
    {[id |-> "student1", name |-> n, email |-> "student@test.com"] : n \in {"Robert", ""}}
        \cup {[id |-> "teacher1", role |-> Role.STUDENT]}

RefCourseUpdate == [id |-> "course1", title |-> "React, second edition", imageFile |-> null]

NextRefs ==
    \/ Tick
    \/ \E d \in RefUserUpdates : updateUser(d) /\ UNCHANGED caller
    \/ \E i \in RefUserIds : deleteUser(i) /\ UNCHANGED caller
    \/ updateCourse(RefCourseUpdate) /\ UNCHANGED caller
    \/ deleteCourse("course1") /\ UNCHANGED caller
    \/ createEnrollment("student1", "course2") /\ UNCHANGED caller
    \/ \E i \in CallEnrollmentIds, status \in Statuses :
          updateEnrollmentStatus(i, status) /\ UNCHANGED caller

InitRefs == InitSeededWith({"ok"})

SpecRefs == InitRefs /\ [][NextRefs]_vars

\* no step removes an enrollment, and an enrollment that appears is pending
EnrollmentsKept ==
    /\ DOMAIN enrollments \subseteq DOMAIN enrollments'
    /\ \A k \in DOMAIN enrollments' \ DOMAIN enrollments :
          enrollments'[k].status = EnrollmentStatus.PENDING

\* updateEnrollmentStatus sets the requested status whatever the current one
\* is, and changes nothing else
AnyStatusFromAny ==
    result'.op = "updateEnrollmentStatus" =>
        \A i \in DOMAIN enrollments, status \in Statuses :
            updateEnrollmentStatus(i, status) =>
                /\ result'.outcome = "ok"
                /\ DOMAIN enrollments' = DOMAIN enrollments
                /\ enrollments'[i].status = status
                /\ \A f \in DOMAIN enrollments[i] \ {"status"} :
                      enrollments'[i][f] = enrollments[i][f]
                /\ \A k \in DOMAIN enrollments \ {i} : enrollments'[k] = enrollments[k]
                /\ UNCHANGED <<users, courses, reviews>>

\* C16: every Enrollment stored by createEnrollment starts with status
\* Pending; updateEnrollmentStatus on an existing enrollment sets any
\* requested status from any current status (Approved to Pending and
\* Approved to Rejected included) and changes no other field or record; and
\* no repository operation ever removes an Enrollment.
C16_EnrollmentLifecycle == [][EnrollmentsKept /\ AnyStatusFromAny]_vars

\* The approved seed enrollment was set back to Pending and a new request was
\* rejected, after its student and its course were deleted.
C16_Witness ==
    /\ result = Settled("updateEnrollmentStatus", "ok")
    /\ enrollments["enroll1"].status = EnrollmentStatus.PENDING
    /\ \E e \in Records(enrollments) :
          e.id \notin {"enroll1", "enroll2"} /\ e.status = EnrollmentStatus.REJECTED
    /\ "student1" \notin DOMAIN users
    /\ "course1" \notin DOMAIN courses

\* C17: deleteUser(id) removes only the User record with that id: every
\* Course, Enrollment and Review record, including those whose teacherId or
\* studentId equals id, is identical before and after the call.
C17_DeleteUserDoesNotCascade ==
    [][result'.op = "deleteUser" =>
          \A i \in RefUserIds :
              deleteUser(i) =>
                  /\ DOMAIN users' = DOMAIN users \ {i}
                  /\ \A k \in DOMAIN users' : users'[k] = users[k]
                  /\ courses' = courses
                  /\ enrollments' = enrollments
                  /\ reviews' = reviews]_vars

\* The teacher and the student were deleted; the teacher's courses and the
\* student's enrollment and review are stored.
C17_Witness ==
    /\ result = Settled("deleteUser", "ok")
    /\ RefUserIds \cap DOMAIN users = {}
    /\ \E c \in Records(courses) : c.teacherId = "teacher1"
    /\ \E e \in Records(enrollments) : e.studentId = "student1"
    /\ \E r \in Records(reviews) : r.studentId = "student1"

\* getEnrollmentsForAdmin has one entry per stored enrollment, which names
\* the student and the course as they are now
EnrollmentsJoined ==
    LET view == getEnrollmentsForAdmin
    IN  /\ {v.id : v \in view} = DOMAIN enrollments
        /\ Cardinality(view) = Cardinality(DOMAIN enrollments)
        /\ \A v \in view :
              /\ v.status = enrollments[v.id].status
              /\ v.studentName = IF v.studentId \in DOMAIN users
                                 THEN users[v.studentId].name ELSE "Unknown Student"
              /\ v.courseTitle = IF v.courseId \in DOMAIN courses
                                 THEN courses[v.courseId].title ELSE "Unknown Course"

\* getCourses names the teacher "Unknown" when no teacher has the course's teacherId
UnknownTeacherNamed ==
    \A c \in getCourses :
        (\A u \in Records(users) : ~ (u.id = c.teacherId /\ u.role = Role.TEACHER)) =>
            c.teacherName = "Unknown"

\* C18: the join views never fail on dangling references and are recomputed
\* from current state: getEnrollmentsForAdmin returns one entry per stored
\* Enrollment, with studentName the current name of the user with id
\* studentId or "Unknown Student" when no such user exists, and courseTitle
\* the current title of the course or "Unknown Course" when it does not
\* exist; getCourses gives teacherName "Unknown" when no user with role
\* Teacher has id teacherId.
C18_JoinViewsFollowState == EnrollmentsJoined /\ UnknownTeacherNamed

\* the stored courses for which the student has an approved enrollment
ApprovedCourseIds(st) ==
    {c \in DOMAIN courses :
        \E e \in Records(enrollments) :
            e.studentId = st /\ e.courseId = c /\ e.status = EnrollmentStatus.APPROVED}

EnrolledIds(st) == {c.id : c \in getEnrolledCoursesByStudentId(st)}

\* the list is exactly the approved, existing courses, each as stored
ListsApproved ==
    \A st \in CallStudents :
        LET listed == getEnrolledCoursesByStudentId(st)
        IN  /\ {c.id : c \in listed} = ApprovedCourseIds(st)
            /\ Cardinality(listed) = Cardinality(ApprovedCourseIds(st))
            /\ \A c \in listed :
                  c.title = courses[c.id].title /\ c.lessons = courses[c.id].lessons

\* a course appears when its enrollment is approved and disappears when the
\* status is set to Pending or Rejected
FollowsStatus ==
    result' = Settled("updateEnrollmentStatus", "ok") =>
        \A i \in DOMAIN enrollments, status \in Statuses :
            updateEnrollmentStatus(i, status) =>
                LET e == enrollments[i]
                IN  e.courseId \in EnrolledIds(e.studentId)' <=>
                        (status = EnrollmentStatus.APPROVED /\ e.courseId \in DOMAIN courses)

\* C19: getEnrolledCoursesByStudentId(s) returns exactly the existing courses
\* c for which an Enrollment (s, c) with current status Approved is stored:
\* a course appears once its enrollment is set to Approved, disappears when
\* the status is later set to Pending or Rejected, and courses with only
\* Pending or Rejected enrollments or enrollments of other students never
\* appear.
C19_EnrolledCoursesAreApproved ==
    []ListsApproved /\ [][FollowsStatus]_vars

\* student1's approved course1 is withdrawn and the request for course2 is
\* approved, while student2's request for course1 is approved.
C19_Witness ==
    /\ result = Settled("updateEnrollmentStatus", "ok")
    /\ EnrolledIds("student1") = {"course2"}
    /\ EnrolledIds("student2") = {"course1"}
    /\ enrollments["enroll1"].status = EnrollmentStatus.REJECTED

---------------------------------------------------------------------------
(* One course aggregate under calls of one client, each awaited: the       *)
(* metadata update and the four lesson operations, on the stored course    *)
(* and on ids no course is stored under; the calls come within one         *)
(* millisecond.                                                            *)

AbsentCourse == "no-such-course"
OpCourseIds == {LessonCourse, AbsentCourse}

\* the lesson ids of a course, none for an absent one
LessonIdsOf(courseId) ==
    IF courseId \in DOMAIN courses THEN LessonIds(courseId) ELSE {}

\* the orders a client asks for: the stored order reversed, and the same with
\* an unknown id in front
ReorderCalls(courseId) ==
    IF courseId \in DOMAIN courses
    THEN LET lessons == courses[courseId].lessons
             reversed == [k \in DOMAIN lessons |-> lessons[Len(lessons) + 1 - k].id]
         IN  {reversed, <<GhostLesson>> \o reversed}
    ELSE {<<>>, <<GhostLesson>>}

MetadataUpdates(courseId) ==
    { [id |-> courseId, title |-> "Renamed", imageFile |-> "upload.bin"],
      [id |-> courseId, status |-> CourseStatus.DRAFT, imageFile |-> null] }

LessonAdded == LessonPayload("L1", "x")
LessonEdit == LessonPayload("Edited", "z")

NextAggregate ==
    \/ \E i \in OpCourseIds : \E d \in MetadataUpdates(i) : updateCourse(d) /\ UNCHANGED caller
    \/ deleteCourse(LessonCourse) /\ UNCHANGED caller
    \/ \E i \in OpCourseIds :
          /\ i \in DOMAIN courses => Len(courses[i].lessons) < MaxLessons
          /\ addLessonToCourse(i, LessonAdded)
          /\ UNCHANGED caller
    \/ \E i \in OpCourseIds : \E l \in LessonIdsOf(i) \cup {GhostLesson} :
          updateLessonInCourse(i, l, LessonEdit) /\ UNCHANGED caller
    \/ \E i \in OpCourseIds : \E l \in LessonIdsOf(i) \cup {GhostLesson} :
          deleteLessonFromCourse(i, l) /\ UNCHANGED caller
    \/ \E i \in OpCourseIds : \E ids \in ReorderCalls(i) :
          reorderLessons(i, ids) /\ UNCHANGED caller

InitAggregate == InitSeededWith({"ok"})

SpecAggregate == InitAggregate /\ [][NextAggregate]_vars

\* a call of one of the five operations with course id i
CourseCall(i) ==
    \/ \E d \in MetadataUpdates(i) : updateCourse(d)
    \/ addLessonToCourse(i, LessonAdded)
    \/ \E l \in LessonIdsOf(i) \cup {GhostLesson} :
          updateLessonInCourse(i, l, LessonEdit) \/ deleteLessonFromCourse(i, l)
    \/ \E ids \in ReorderCalls(i) : reorderLessons(i, ids)

NotFoundOps ==
    {"updateCourse", "addLessonToCourse", "updateLessonInCourse",
     "deleteLessonFromCourse", "reorderLessons"}

\* C22: updateCourse, addLessonToCourse, updateLessonInCourse,
\* deleteLessonFromCourse and reorderLessons called with an id under which no
\* course is stored fail with the NotFound error ('Course not found'), create
\* no record and leave every collection unchanged.
C22_AbsentCourseNotFound ==
    [][\A i \in OpCourseIds :
          (i \notin DOMAIN courses /\ CourseCall(i)) =>
              /\ result'.op \in NotFoundOps
              /\ result'.outcome = "Course not found"
              /\ UNCHANGED stores]_vars

\* the course was deleted and an update of its metadata was then refused
C22_Witness ==
    /\ LessonCourse \notin DOMAIN courses
    /\ result = Settled("updateCourse", "Course not found")


\* what getCourseById answers for the course, before and after a step
CourseRead == getCourseById(LessonCourse)

\* the lessons read after updateLessonInCourse(l, LessonEdit), from those read before
EditSeen(lessons, l) ==
    [lessons EXCEPT ![findIndex(lessons, l)] =
        Spread(@, [title |-> LessonEdit.title, content |-> LessonEdit.content,
                   duration |-> LessonEdit.duration])]

\* the lessons read after addLessonToCourse(LessonAdded): those read before
\* and the new one
AddSeen(before, after) ==
    /\ Len(after) = Len(before) + 1
    /\ SubSeq(after, 1, Len(before)) = before
    /\ after[Len(after)].title = LessonAdded.title
    /\ after[Len(after)].content = LessonAdded.content

\* the course read after updateCourse(d), from the one read before
MetadataSeen(before, d) ==
    LET given == Spread(before, Rest(Rest(d, "imageFile"), "id"))
    IN  IF Truthy(d.imageFile)
        THEN Spread(given, [imageBlob |-> d.imageFile, imageUrl |-> createObjectURL(d.imageFile)])
        ELSE given

\* the lessons read after deleteLessonFromCourse(l) and after reorderLessons(ids)
DeleteSeen(lessons, l) ==
    LET other(x) == x.id # l
    IN  SelectSeq(lessons, other)

ReorderSeen(before, after, ids) ==
    LET known(x) == x \in {y.id : y \in Range(before)}
    IN  /\ [k \in DOMAIN after |-> after[k].id] = SelectSeq(ids, known)
        /\ Range(after) \subseteq Range(before)

\* a course without its lesson list
MetadataOf(course) == [course EXCEPT !.lessons = <<>>]

\* C23: calls of one client on one course, each awaited, see each other's
\* effects in issue order: what getCourseById answers after a call is the
\* call applied to what getCourseById answered before it, so a second edit is
\* made on the result of the first.
C23_EffectsInIssueOrder ==
    [][(LessonCourse \in DOMAIN courses) =>
        /\ \A l \in LessonIdsOf(LessonCourse) :
              /\ updateLessonInCourse(LessonCourse, l, LessonEdit) =>
                    CourseRead' = [CourseRead EXCEPT !.lessons = EditSeen(@, l)]
              /\ deleteLessonFromCourse(LessonCourse, l) =>
                    CourseRead' = [CourseRead EXCEPT !.lessons = DeleteSeen(@, l)]
        /\ addLessonToCourse(LessonCourse, LessonAdded) =>
              /\ AddSeen(CourseRead.lessons, CourseRead'.lessons)
              /\ MetadataOf(CourseRead') = MetadataOf(CourseRead)
        /\ \A d \in MetadataUpdates(LessonCourse) :
              updateCourse(d) => CourseRead' = MetadataSeen(CourseRead, d)
        /\ \A ids \in ReorderCalls(LessonCourse) :
              reorderLessons(LessonCourse, ids) =>
                 /\ ReorderSeen(CourseRead.lessons, CourseRead'.lessons, ids)
                 /\ MetadataOf(CourseRead') = MetadataOf(CourseRead)]_vars

\* two lessons were edited one after the other and the course was renamed:
\* the read shows all three
C23_Witness ==
    /\ result = Settled("updateLessonInCourse", "ok")
    /\ LessonCourse \in DOMAIN courses
    /\ CourseRead.title = "Renamed"
    /\ Len(CourseRead.lessons) >= 2
    /\ \A k \in 1..2 : CourseRead.lessons[k].title = LessonEdit.title
    /\ CourseRead.lessons[1].id # CourseRead.lessons[2].id

---------------------------------------------------------------------------
(* The Review Store under calls of one client, with the reviewed course    *)
(* and the reviewing student deleted in between.                           *)

ReviewPayloads ==
    {[studentId |-> st, courseId |-> c, rating |-> 4, comment |-> "Good."]
        : st \in {"student1", "student2"}, c \in {"course1", "course2"}}

ReviewedCourses == {"course1", "course2", AbsentCourse}

NextReviews ==
    \/ Tick
    \/ \E d \in ReviewPayloads : addReview(d) /\ UNCHANGED caller
    \/ deleteUser("student1") /\ UNCHANGED caller
    \/ deleteCourse("course1") /\ UNCHANGED caller

InitReviews == InitSeededWith({"ok"})

SpecReviews == InitReviews /\ [][NextReviews]_vars

\* addReview stored one record more
Inserted(d) ==
    /\ result'.outcome = "ok"
    /\ \E k \in DOMAIN reviews' \ DOMAIN reviews :
          /\ DOMAIN reviews' = DOMAIN reviews \cup {k}
          /\ Rest(reviews'[k], "id") = d

\* every stored review is still stored, as it was
ReviewsKept == \A k \in DOMAIN reviews : k \in DOMAIN reviews' /\ reviews'[k] = reviews[k]

ReviewsByCourse ==
    \A c \in ReviewedCourses :
        getReviewsForCourse(c) = {r \in Records(reviews) : r.courseId = c}

\* C25: the Review Store is append-only: addReview always inserts a new
\* record, also when the same student already reviewed the same course,
\* getReviewsForCourse(c) returns exactly the stored reviews whose courseId is
\* c, and no operation modifies or removes a stored review.
C25_ReviewsAppendOnly ==
    [][/\ ReviewsByCourse'
       /\ ReviewsKept
       /\ \A d \in ReviewPayloads : addReview(d) => Inserted(d)]_vars

---------------------------------------------------------------------------
(* Calls on one course issued without awaiting one another: two            *)
(* addLessonToCourse calls, or updateCourse and addLessonToCourse.         *)

\* How many calls are in flight together.
MaxInflight == 2

ConcurrentCalls ==
    {[op |-> "addLessonToCourse", data |-> d] : d \in PlainPayloads} \cup
    {[op |-> "updateCourse", data |-> d] : d \in MetadataUpdates(LessonCourse)}

\* the lessons the calls in flight are going to add
AddsInflight ==
    Cardinality({k \in DOMAIN inflight : inflight[k].op = "addLessonToCourse"})

NextConcurrent ==
    \/ Tick
    \/ \E c \in ConcurrentCalls :
          /\ Len(inflight) < MaxInflight
          /\ c.op = "addLessonToCourse" =>
                Len(courses[LessonCourse].lessons) + AddsInflight < MaxLessons
          /\ Issue(c.op, LessonCourse, c.data)
    \/ \E k \in 1..MaxInflight : TxGet(k)
    \/ \E k \in 1..MaxInflight : TxPut(k)
    \/ /\ inflight = <<>>
       /\ \E l \in LessonIds(LessonCourse) : deleteLessonFromCourse(LessonCourse, l)
       /\ UNCHANGED caller

InitConcurrent == InitSeededWith({"ok"})

SpecConcurrent == InitConcurrent /\ [][NextConcurrent]_vars

\* the write of the k-th call is made on the course as it is stored now: the
\* lesson is appended to the stored lessons, the metadata is merged into the
\* stored record, and nothing else of the stored record changes
NothingLost(k) ==
    LET call == inflight[k]
        stored == courses[LessonCourse]
        written == courses'[LessonCourse]
    IN  IF call.op = "addLessonToCourse"
        THEN /\ Len(written.lessons) = Len(stored.lessons) + 1
             /\ SubSeq(written.lessons, 1, Len(stored.lessons)) = stored.lessons
             /\ written.lessons[Len(written.lessons)].title = call.data.title
             /\ MetadataOf(written) = MetadataOf(stored)
        ELSE /\ written.lessons = stored.lessons
             /\ \A f \in DOMAIN call.data \ {"imageFile"} : written[f] = call.data[f]
             /\ \A f \in DOMAIN stored \ (DOMAIN call.data \cup {"imageBlob"}) :
                   written[f] = stored[f]

\* C28: mutations of one course issued without awaiting one another are
\* serialised without lost updates: every call that completes writes its
\* change onto the course as stored at that moment, so after two concurrent
\* addLessonToCourse calls both lessons are stored, and after a concurrent
\* updateCourse and addLessonToCourse both the metadata and the lesson are.
C28_NoLostUpdate ==
    [][\A k \in 1..MaxInflight :
          (TxPut(k) /\ result'.outcome = "ok") => NothingLost(k)]_vars

\* of two calls issued together the first has written its lesson and the
\* second, an updateCourse, has read the course with that lesson
C28_Witness ==
    /\ Len(inflight) = 1
    /\ inflight[1].op = "updateCourse"
    /\ inflight[1].course # Unread
    /\ result = Settled("addLessonToCourse", "ok")
    /\ Len(inflight[1].course.lessons) = 3


\* a lesson operation called with course id i
LessonCall(i) ==
    \/ addLessonToCourse(i, LessonAdded)
    \/ \E l \in LessonIdsOf(i) \cup {GhostLesson} :
          updateLessonInCourse(i, l, LessonEdit) \/ deleteLessonFromCourse(i, l)
    \/ \E ids \in ReorderCalls(i) : reorderLessons(i, ids)

\* every course but i is stored as before
OthersKept(i) ==
    /\ DOMAIN courses' = DOMAIN courses
    /\ \A c \in DOMAIN courses \ {i} : courses'[c] = courses[c]

\* updateLessonInCourse(i, l) changed at most the first lesson with id l,
\* which is where it was
OnlyTargetEdited(i, l) ==
    LET before == courses[i].lessons
        after == courses'[i].lessons
    IN  /\ Len(after) = Len(before)
        /\ \A k \in DOMAIN before :
              /\ after[k].id = before[k].id
              /\ k # findIndex(before, l) => after[k] = before[k]

\* C29: the lesson operations leave the course's title, description, status,
\* teacherId and image and every other course unchanged; updateCourse leaves
\* the course's lesson list and teacherId unchanged; updateLessonInCourse
\* leaves every lesson but the targeted one, and the position of the targeted
\* one, unchanged.
C29_OperationsKeepTheirFrame ==
    [][\A i \in OpCourseIds \cap DOMAIN courses :
          /\ LessonCall(i) =>
                /\ MetadataOf(courses'[i]) = MetadataOf(courses[i])
                /\ OthersKept(i)
          /\ \A d \in MetadataUpdates(i) :
                updateCourse(d) =>
                   /\ courses'[i].lessons = courses[i].lessons
                   /\ courses'[i].teacherId = courses[i].teacherId
                   /\ OthersKept(i)
          /\ \A l \in LessonIdsOf(i) \cup {GhostLesson} :
                updateLessonInCourse(i, l, LessonEdit) => OnlyTargetEdited(i, l)]_vars

\* the course was renamed and set to Draft, its second lesson edited and the
\* lessons then put in reverse order, next to an untouched course1
C29_Witness ==
    /\ result = Settled("reorderLessons", "ok")
    /\ LessonCourse \in DOMAIN courses
    /\ courses[LessonCourse].title = "Renamed"
    /\ courses[LessonCourse].status = CourseStatus.DRAFT
    /\ [k \in DOMAIN courses[LessonCourse].lessons |-> courses[LessonCourse].lessons[k].title]
          = <<LessonEdit.title, "Getting Started with Tailwind">>
    /\ \E c \in withBlobs(initialCourses, AllFetched("ok"), "imageUrl", "imageBlob") :
          c.id = "course1" /\ courses["course1"] = c

---------------------------------------------------------------------------
(* The lesson pages of course1 for a visitor and for each signed-in user,  *)
(* while the admin decides enrollments and the teacher gives the second    *)
(* lesson a video and an attachment.                                       *)

GatedCourse == "course1"

SignIns ==
    { <<"erick@gmail.com", "Erick3132!@#">>, <<"teacher@test.com", "password">>,
      <<"student@test.com", "password">>, <<"student2@test.com", "password">> }

LessonWithMedia ==
    Spread(LessonPayload("Understanding JSX", "JSX is a syntax extension."),
           [videoUrlInput |-> ExternalVideo, attachmentFile |-> "upload.bin"])

NextGate ==
    \/ \E c \in SignIns : AuthProvider_login(c[1], c[2])
    \/ logout
    \/ CoursePage_mount(GatedCourse)
    \/ \E l \in LessonIdsOf(GatedCourse) : handleLessonClick(l)
    \/ \E l \in LessonIdsOf(GatedCourse) : selectLesson(l)
    \/ \E e \in {"enroll1", "enroll2"}, st \in Statuses :
          updateEnrollmentStatus(e, st) /\ UNCHANGED caller
    \/ updateLessonInCourse(GatedCourse, "l1-2", LessonWithMedia) /\ UNCHANGED caller

InitGate == InitSeededWith({"ok"})

SpecGate == InitGate /\ [][NextGate]_vars

\* the user has an Approved enrollment in the course
HasApprovedEnrollment(user, courseId) ==
    /\ SignedIn(user)
    /\ \E e \in Records(enrollments) :
          /\ e.studentId = user.id
          /\ e.courseId = courseId
          /\ e.status = EnrollmentStatus.APPROVED

\* LessonViewPage shows a lesson after the first to a user without an
\* Approved enrollment
GatedLessonShown ==
    /\ session.page = "lessonView"
    /\ currentLessonIndex(session) > 1
    /\ ~ HasApprovedEnrollment(session.user, session.course.id)

\* the lesson LessonViewPage shows is one CoursePage offers the user as unlocked
OfferedUnlocked ==
    /\ session.page = "lessonView"
    /\ currentLessonIndex(session) > 0
    /\ ~ isLocked(session.user, session.enrollment, currentLessonIndex(session))

\* C30: LessonViewPage displays none of the video, attachment or text content
\* of a lesson other than the first to a user who has no Approved enrollment
\* in the course, and a lesson CoursePage offers a user as unlocked is shown
\* unlocked by LessonViewPage.
C30_LessonGating ==
    /\ GatedLessonShown => rendered(session) = {}
    /\ OfferedUnlocked => ~ isContentLocked(session)

=============================================================================
